---------------------------- MODULE Spec2Model ----------------------------
(***************************************************************************)
(* Model of the ai-proxy credential pool (keyManager, scoped version) and  *)
(* of the retry transport (retryTransport.RoundTrip) that drives it.       *)
(*                                                                         *)
(* The pool is one object guarded by one mutex: every pool operation is    *)
(* one atomic action.  Time is the reading of time.Now(); each operation   *)
(* happens at a reading t >= the previous one.                             *)
(***************************************************************************)
EXTENDS Integers, Sequences, FiniteSets, TLC

\* ---------------------------------------------------------------- bounds
MaxKeys == 3        \* longest configured credential list the transport is run with
MaxPoolKeys == 2    \* longest configured credential list the pool alone is run with
MaxTime == 2        \* last clock reading explored
MaxDuration == 1    \* largest removalDuration explored

\* ------------------------------------------------------ program constants
maxRetries == 3

\* ----------------------------------------------------------------- state
VARIABLES
    originalKeys,     \* keyManager.originalKeys: the configured list (1-based here, index i of the code is i+1)
    removalDuration,  \* keyManager.removalDuration
    scopes,           \* keyManager.scopes: scope string -> scopeState
    now,              \* the latest reading of time.Now()
    lastOp,           \* history: the pool operation of the latest step, what it reported
    markedAt,         \* history: scope -> index -> clock reading at which markKeyFailed sidelined it,
                      \* kept while that reading + removalDuration is still ahead of the clock
    req,              \* the inbound request in retryTransport.RoundTrip: its locals, its position, its result
    rw,               \* the http.ResponseWriter of the request: what the proxy wrote to the client
    rt,               \* the retryTransport's configuration: keyParam and headerAuthPaths
    handler,          \* what createMainHandler was given: addGoogleSearch and searchTrigger
    mu,               \* keyManager.mu: the goroutine holding the mutex, NoHolder when it is unlocked
    tasks             \* the goroutines calling the pool: each one's position and locals inside its call

vars == <<originalKeys, removalDuration, scopes, now, lastOp, markedAt, req, rw, rt, handler, mu, tasks>>

\* -------------------------------------------------------------- helpers
EmptyMap == [x \in {} |-> 0]

MinOf(S) == CHOOSE x \in S : \A y \in S : x <= y

\* Go map assignment m[k] = v
MapSet(m, k, v) == [x \in DOMAIN m \cup {k} |-> IF x = k THEN v ELSE m[x]]

\* Go delete(m, k)
MapDelete(m, k) == [x \in DOMAIN m \ {k} |-> m[x]]

\* ------------------------------------------------------- configuration
Hosts == {"api.example"}
Paths == {"/v1beta/models/gemini-pro", "/openai/v1/chat/completions"}

buildScopeKey(host, path) == host \o "|" \o path

Scopes == {buildScopeKey(h, p) : h \in Hosts, p \in Paths}

\* The credential at position i (1-based) of a configured list is either
\* the empty string or a credential distinct from all others.
KeyName(i) == "k" \o ToString(i)

KeyLists(maxLen) ==
    UNION {{ks \in [1..n -> {""} \cup {KeyName(i) : i \in 1..n}] :
                \A i \in 1..n : ks[i] \in {"", KeyName(i)}} : n \in 0..maxLen}

Durations == 0..MaxDuration

\* newKeyManager without its count of the non-empty keys
newKeyManagerSkipsValidCount(keys, duration) ==
    IF Len(keys) = 0 THEN "at least one API key must be provided"
    ELSE IF duration <= 0 THEN "key removal duration must be positive"
    ELSE ""

\* newKeyManager: the error it returns, "" when it succeeds.
newKeyManager(keys, duration) ==
    IF Len(keys) = 0 THEN "at least one API key must be provided"
    ELSE IF duration <= 0 THEN "key removal duration must be positive"
    ELSE IF {i \in 1..Len(keys) : keys[i] # ""} = {} THEN "no valid (non-empty) API keys found"
    ELSE ""

\* ------------------------------------------------------------- the pool
numOriginalKeys == Len(originalKeys)

Indices == 0..(numOriginalKeys - 1)

\* km.originalKeys[i] for a Go index i in range
KeyAt(i) == originalKeys[i + 1]

validOriginalKeyCount == Cardinality({i \in Indices : KeyAt(i) # ""})

\* getOrCreateScopeState without its "only add non-empty keys" test
NewScopeStateAll ==
    [availableKeys |-> [i \in Indices |-> KeyAt(i)],
     failingKeys   |-> EmptyMap,
     currentIndex  |-> 0]

NewScopeState ==
    [availableKeys |-> [i \in {j \in Indices : KeyAt(j) # ""} |-> KeyAt(i)],
     failingKeys   |-> EmptyMap,
     currentIndex  |-> 0]

\* getOrCreateScopeState without its "exists" test: the scope's state is made anew each time
getOrCreateScopeStateAnew(sc, scope) ==
    [x \in DOMAIN sc \cup {scope} |-> IF x = scope THEN NewScopeState ELSE sc[x]]

\* getOrCreateScopeState that starts a new scopes map for a scope it does not know
getOrCreateScopeStateResets(sc, scope) ==
    IF scope \in DOMAIN sc THEN sc
    ELSE [x \in {scope} |-> NewScopeState]

getOrCreateScopeState(sc, scope) ==
    IF scope \in DOMAIN sc THEN sc
    ELSE [x \in DOMAIN sc \cup {scope} |-> IF x = scope THEN NewScopeState ELSE sc[x]]

\* the sweep with now.Before(reactivateTime) in place of now.After(reactivateTime)
SweepStateBefore(state, t) ==
    LET due   == {i \in DOMAIN state.failingKeys : t < state.failingKeys[i]}
        valid == {i \in due : i >= 0 /\ i < numOriginalKeys /\ KeyAt(i) # ""}
    IN [state EXCEPT
          !.availableKeys = [i \in DOMAIN state.availableKeys \cup valid |->
                                IF i \in valid THEN KeyAt(i) ELSE state.availableKeys[i]],
          !.failingKeys   = [i \in DOMAIN state.failingKeys \ due |-> state.failingKeys[i]]]

\* The sweep of one scope's failingKeys at clock reading t (the loop body
\* shared by reactivateScopeKeys and reactivateKeys).
SweepState(state, t) ==
    LET due   == {i \in DOMAIN state.failingKeys : t > state.failingKeys[i]}
        valid == {i \in due : i >= 0 /\ i < numOriginalKeys /\ KeyAt(i) # ""}
    IN [state EXCEPT
          !.availableKeys = [i \in DOMAIN state.availableKeys \cup valid |->
                                IF i \in valid THEN KeyAt(i) ELSE state.availableKeys[i]],
          !.failingKeys   = [i \in DOMAIN state.failingKeys \ due |-> state.failingKeys[i]]]

\* the immediate check as the unscoped key manager did it: when all keys are
\* failing, reactivate all of them at once, whatever their reactivation time
reactivateScopeKeysAll(state, t) ==
    [state EXCEPT
       !.availableKeys = [i \in DOMAIN state.availableKeys \cup DOMAIN state.failingKeys |->
                             KeyAt(i)],
       !.failingKeys   = EmptyMap]

reactivateScopeKeys(state, t) == SweepState(state, t)

\* keysReactivated, the count reactivateScopeKeys returns and reactivateKeys logs
keysReactivated(state, t) ==
    Cardinality(DOMAIN SweepState(state, t).availableKeys \ DOMAIN state.availableKeys)

reactivateKeys(sc, t) == [s \in DOMAIN sc |-> SweepState(sc[s], t)]

\* The random-start linear probe of getNextKey, step 2.
Probe(state, startIndex) ==
    LET hits == {i \in 0..(numOriginalKeys - 1) :
                    ((startIndex + i) % numOriginalKeys) \in DOMAIN state.availableKeys}
    IN IF hits = {} THEN -1 ELSE (startIndex + MinOf(hits)) % numOriginalKeys

ErrEmptyList == "internal error: key list is empty"
ErrAllFailing == "all keys are temporarily rate limited or failing"
ErrNoneConfigured == "no keys configured or available"
ErrNotFound == "no available key found after checking all indices"

\* the probe's hit taken out of availableKeys while it is in use
SelectedReserves(sc, scope, startIndex, swept) ==
    LET keyIndex == Probe(sc[scope], startIndex)
    IN IF keyIndex = -1
       THEN [scopes |-> sc, key |-> "", index |-> -1, err |-> ErrNotFound, swept |-> swept]
       ELSE [scopes |-> [sc EXCEPT ![scope].availableKeys = MapDelete(@, keyIndex)],
             key |-> sc[scope].availableKeys[keyIndex], index |-> keyIndex,
             err |-> "", swept |-> swept]

Selected(sc, scope, startIndex, swept) ==
    LET keyIndex == Probe(sc[scope], startIndex)
    IN IF keyIndex = -1
       THEN [scopes |-> sc, key |-> "", index |-> -1, err |-> ErrNotFound, swept |-> swept]
       ELSE [scopes |-> sc, key |-> sc[scope].availableKeys[keyIndex], index |-> keyIndex,
             err |-> "", swept |-> swept]

\* getNextKey(scope) at clock reading t with rand.IntN drawing startIndex.
getNextKey(sc, scope, t, startIndex) ==
    IF numOriginalKeys = 0
    THEN [scopes |-> sc, key |-> "", index |-> -1, err |-> ErrEmptyList, swept |-> FALSE]
    ELSE
    LET sc1   == getOrCreateScopeState(sc, scope)
        state == sc1[scope]
    IN IF DOMAIN state.availableKeys = {}
       THEN IF Cardinality(DOMAIN state.failingKeys) > 0
               /\ Cardinality(DOMAIN state.failingKeys) = validOriginalKeyCount
            THEN LET sc2 == [sc1 EXCEPT ![scope] = reactivateScopeKeys(state, t)]
                 IN IF DOMAIN sc2[scope].availableKeys = {}
                    THEN [scopes |-> sc2, key |-> "", index |-> -1, err |-> ErrAllFailing,
                          swept |-> TRUE]
                    ELSE Selected(sc2, scope, startIndex, TRUE)
            ELSE [scopes |-> sc1, key |-> "", index |-> -1, err |-> ErrNoneConfigured,
                  swept |-> FALSE]
       ELSE Selected(sc1, scope, startIndex, FALSE)

\* markKeyFailed that records the failure and forgets delete(state.availableKeys, keyIndex)
markKeyFailedKeepsAvailable(sc, scope, keyIndex, t) ==
    LET sc1   == getOrCreateScopeState(sc, scope)
        state == sc1[scope]
    IN IF keyIndex \in DOMAIN state.availableKeys
       THEN [sc1 EXCEPT ![scope] =
               [state EXCEPT !.failingKeys = MapSet(state.failingKeys, keyIndex, t + removalDuration)]]
       ELSE sc1

\* markKeyFailed without the "only if currently available" test
markKeyFailedAlways(sc, scope, keyIndex, t) ==
    LET sc1   == getOrCreateScopeState(sc, scope)
        state == sc1[scope]
    IN [sc1 EXCEPT ![scope] =
          [state EXCEPT !.failingKeys = MapSet(state.failingKeys, keyIndex, t + removalDuration),
                        !.availableKeys = MapDelete(state.availableKeys, keyIndex)]]

\* markKeyFailed as the unscoped key manager did it: the key fails in every scope
markKeyFailedAllScopes(sc, scope, keyIndex, t) ==
    LET sc1 == getOrCreateScopeState(sc, scope)
    IN [s \in DOMAIN sc1 |->
          IF keyIndex \in DOMAIN sc1[s].availableKeys
          THEN [sc1[s] EXCEPT !.failingKeys = MapSet(sc1[s].failingKeys, keyIndex, t + removalDuration),
                              !.availableKeys = MapDelete(sc1[s].availableKeys, keyIndex)]
          ELSE sc1[s]]

\* markKeyFailed taking the key out of availableKeys without an entry in
\* failingKeys
markKeyFailedOnlyDeletes(sc, scope, keyIndex, t) ==
    LET sc1   == getOrCreateScopeState(sc, scope)
        state == sc1[scope]
    IN IF keyIndex \in DOMAIN state.availableKeys
       THEN [sc1 EXCEPT ![scope] =
               [state EXCEPT !.availableKeys = MapDelete(state.availableKeys, keyIndex)]]
       ELSE sc1

\* markKeyFailed(scope, keyIndex) at clock reading t.
markKeyFailed(sc, scope, keyIndex, t) ==
    LET sc1   == getOrCreateScopeState(sc, scope)
        state == sc1[scope]
    IN IF keyIndex \in DOMAIN state.availableKeys
       THEN [sc1 EXCEPT ![scope] =
               [state EXCEPT !.failingKeys = MapSet(state.failingKeys, keyIndex, t + removalDuration),
                             !.availableKeys = MapDelete(state.availableKeys, keyIndex)]]
       ELSE sc1

\* history of sidelinings: updated when markKeyFailed moves keyIndex to failingKeys
Sidelines(sc, scope, keyIndex) ==
    keyIndex \in DOMAIN getOrCreateScopeState(sc, scope)[scope].availableKeys

NoteMarked(m, sc, scope, keyIndex, t) ==
    IF Sidelines(sc, scope, keyIndex)
    THEN [m EXCEPT ![scope] = MapSet(m[scope], keyIndex, t)]
    ELSE m

\* what the latest pool operation reported: getNextKey its error and the count of
\* its immediate reactivation check, markKeyFailed whether it moved the key,
\* reactivateKeys how many keys it reactivated
Acquired(sc, scope, t, startIndex) ==
    LET g == getNextKey(sc, scope, t, startIndex)
    IN [op |-> "getNextKey",
        n |-> IF g.swept THEN keysReactivated(sc[scope], t) ELSE 0,
        err |-> g.err]

Marked(sc, scope, keyIndex) ==
    [op |-> "markKeyFailed", n |-> IF Sidelines(sc, scope, keyIndex) THEN 1 ELSE 0, err |-> ""]

RECURSIVE SumOver(_, _, _)
SumOver(sc, S, t) ==
    IF S = {} THEN 0
    ELSE LET s == CHOOSE x \in S : TRUE
         IN keysReactivated(sc[s], t) + SumOver(sc, S \ {s}, t)

Swept(sc, t) == [op |-> "reactivateKeys", n |-> SumOver(sc, DOMAIN sc, t), err |-> ""]

\* forget the sidelinings whose removalDuration has run out at clock reading t
Recent(m, t) ==
    [s \in DOMAIN m |-> [i \in {j \in DOMAIN m[s] : t < m[s][j] + removalDuration} |-> m[s][i]]]

\* ------------------------------------------------- the retry transport
StatusCodes == {200, 302, 403, 429, 500, 501, 505}

\* what rt.underlyingTransport.RoundTrip can hand back: a response with a
\* status, or an error: a net.Error whose Timeout() is true, a net.Error whose
\* Timeout() is false and whose Temporary() is true (a connection reset),
\* io.EOF / io.ErrUnexpectedEOF, context.Canceled, or any other error
TransportErrors == {"timeout", "temporary", "eof", "canceled", "other"}

Outcomes ==
    [status : StatusCodes, err : {""}] \cup [status : {0}, err : TransportErrors]

StatusTooManyRequests == 429
StatusServiceUnavailable == 503
StatusNotImplemented == 501
StatusHTTPVersionNotSupported == 505

\* the retry conditions as the unscoped transport had them: netErr.Timeout() || netErr.Temporary()
shouldRetryTemporary(out) ==
    IF out.err # ""
    THEN out.err = "timeout" \/ out.err = "temporary" \/ out.err = "eof"
    ELSE \/ out.status = StatusTooManyRequests
         \/ /\ out.status >= 500
            /\ out.status # StatusNotImplemented
            /\ out.status # StatusHTTPVersionNotSupported

\* the retry conditions of RoundTrip
shouldRetry(out) ==
    IF out.err # ""
    THEN out.err = "timeout" \/ out.err = "eof"
    ELSE \/ out.status = StatusTooManyRequests
         \/ /\ out.status >= 500
            /\ out.status # StatusNotImplemented
            /\ out.status # StatusHTTPVersionNotSupported

\* the transport marking the key on a retryable server error as well
marksKeyOnServerError(out) == out.err = "" /\ (out.status = StatusTooManyRequests \/ out.status >= 500)

\* the transport marks the key of the attempt only on a 429 response
marksKey(out) == out.err = "" /\ out.status = StatusTooManyRequests

NoReturn == [resp |-> 0, err |-> "", StatusCode |-> 0, cause |-> ""]

\* the key error returned bare, without the 503 wrapper
KeyErrorReturnBare(keyErr) ==
    [resp |-> 0, err |-> keyErr, StatusCode |-> 0, cause |-> keyErr]

\* return nil, &proxyErrorWithStatus{...} when getNextKey fails
KeyErrorReturn(keyErr) ==
    [resp |-> 0, err |-> "proxyErrorWithStatus", StatusCode |-> StatusServiceUnavailable,
     cause |-> keyErr]

\* return resp, lastErr of a non-retryable attempt
AttemptReturn(out) == [resp |-> out.status, err |-> out.err, StatusCode |-> 0, cause |-> ""]

\* the code after the retry loop handing back the last response instead of an error
ExhaustedReturnResponse(out) == [resp |-> out.status, err |-> out.err, StatusCode |-> 0, cause |-> ""]

\* the code after the retry loop wrapping a last transport error as it wraps a last response
ExhaustedReturnWrapsError(out) ==
    [resp |-> 0, err |-> "proxyErrorWithStatus",
     StatusCode |-> IF out.err = "" THEN out.status ELSE 502, cause |-> ""]

\* the code after the retry loop: all retries were exhausted
ExhaustedReturn(out) ==
    IF out.err = "" /\ out.status # 0
    THEN [resp |-> 0, err |-> "proxyErrorWithStatus", StatusCode |-> out.status, cause |-> ""]
    ELSE IF out.err = ""
    THEN [resp |-> 0, err |-> "internal error: retry loop exited without a final error or successful response",
          StatusCode |-> 0, cause |-> ""]
    ELSE [resp |-> 0, err |-> out.err, StatusCode |-> 0, cause |-> ""]

\* ----------------------------------------------- the two auth channels
\* the query parameters a request can carry
QueryParams == {"key", "api_key"}

\* req.Header["Authorization"]: the values of the header, none if absent
NoHeader == <<>>

\* req.URL.Query(): parameter -> its values, none if absent
NoQuery == [p \in QueryParams |-> <<>>]

\* the part of a request the retry loop touches: the Authorization header,
\* the query, the body, ContentLength and the Content-Length header (its
\* values, none if absent)
NoRequest ==
    [Header |-> NoHeader, Query |-> NoQuery,
     Body |-> [kind |-> "nil"], ContentLength |-> 0, ContentLengthHeader |-> <<>>]

\* the flags' defaults: -key-param key, -header-auth-paths /openai
DefaultTransport == [keyParam |-> "key", headerAuthPaths |-> <<"/openai">>]

\* the flags' defaults: -add-google-search true, -search-trigger search
DefaultHandler == [addGoogleSearch |-> TRUE, searchTrigger |-> "search"]

\* a path or a header-auth entry as the sequence of its elements
PathElements(p) ==
    CASE p = "/v1beta/models/gemini-pro"   -> <<"v1beta", "models", "gemini-pro">>
      [] p = "/openai/v1/chat/completions" -> <<"openai", "v1", "chat", "completions">>
      [] p = "/openai"                     -> <<"openai">>
      [] p = "/models"                     -> <<"models">>
      [] p = "/chat/completions"           -> <<"chat", "completions">>
      [] OTHER                             -> <<>>

\* strings.Contains(s, substr), element by element
Contains(s, substr) ==
    LET a == PathElements(s)
        b == PathElements(substr)
    IN \E i \in 1..(Len(a) - Len(b) + 1) : SubSeq(a, i, i + Len(b) - 1) = b

\* the loop over rt.headerAuthPaths
useHeaderAuth(t, path) ==
    \E i \in 1..Len(t.headerAuthPaths) : Contains(path, t.headerAuthPaths[i])

\* "Apply Authentication" leaving a client's Authorization header in place
\* when the key goes into the query
ApplyAuthenticationKeepsHeader(t, r, path, apiKey) ==
    IF useHeaderAuth(t, path)
    THEN [r EXCEPT !.Header = <<"Bearer " \o apiKey>>,
                   !.Query  = [r.Query EXCEPT ![t.keyParam] = <<>>]]
    ELSE [r EXCEPT !.Header = r.Header,
                   !.Query  = [r.Query EXCEPT ![t.keyParam] = <<apiKey>>]]

\* "Apply Authentication" on the clone r of the request: Header.Set or
\* Header.Del of Authorization, query.Del or query.Set of rt.keyParam
ApplyAuthentication(t, r, path, apiKey) ==
    IF useHeaderAuth(t, path)
    THEN [r EXCEPT !.Header = <<"Bearer " \o apiKey>>,
                   !.Query  = [r.Query EXCEPT ![t.keyParam] = <<>>]]
    ELSE [r EXCEPT !.Header = <<>>,
                   !.Query  = [r.Query EXCEPT ![t.keyParam] = <<apiKey>>]]

\* the length the client declared for its body: req.ContentLength and the
\* Content-Length header of the inbound request
InboundLength(body) == IF body.kind = "reader" THEN body.len ELSE 0
InboundLengthHeader(body) == IF body.kind = "reader" THEN <<body.len>> ELSE <<>>

\* req.Clone(ctx): the header, the URL, the body and the length of the
\* original request, copied
Clone(q) ==
    [Header |-> q.Header, Query |-> q.Query,
     Body |-> q.Body, ContentLength |-> InboundLength(q.Body),
     ContentLengthHeader |-> InboundLengthHeader(q.Body)]

\* ------------------------------------------------------ body buffering
bodyReadLimit == 10 * 1024 * 1024

Methods == {"GET", "POST", "PUT", "OPTIONS"}

isIdempotentMethod(method) == method \in {"GET", "HEAD", "OPTIONS", "TRACE", "PUT", "DELETE"}

\* req.Body: nil, http.NoBody, or a reader of len bytes.  A reader is an
\* io.NopCloser over bytes, which can still be read after Close; or the body
\* of a server request, whose Read after Close fails; or one whose Read fails.
NilBody == [kind |-> "nil"]
NoBody == [kind |-> "NoBody"]
ReaderBody(len, closer) == [kind |-> "reader", len |-> len, closer |-> closer]

Closers == {"NopCloser", "body", "broken"}

\* the number of bytes io.ReadAll(io.LimitReader(body, bodyReadLimit)) returns
ReadLimited(body) == IF body.len <= bodyReadLimit THEN body.len ELSE bodyReadLimit

\* io.Copy(io.Discard, req.Body) after req.Body.Close() returns a nil error
CopyAfterCloseSucceeds(body) == body.closer = "NopCloser"

ReadFailure ==
    [resp |-> 0, err |-> "failed to read request body for potential retry",
     StatusCode |-> 0, cause |-> ""]

\* "Buffer request body if necessary": RoundTrip before its retry loop, for
\* the request q; bodyBytes is len(bodyBytes), warned whether the truncation
\* warning was logged
Buffered(q) ==
    IF q.Body.kind = "reader" /\ ~isIdempotentMethod(q.Method)
    THEN IF q.Body.closer = "broken"
         THEN [q EXCEPT !.pc = "done", !.ret = ReadFailure]
         ELSE [q EXCEPT !.pc = "acquire", !.bodyBytes = ReadLimited(q.Body),
                        !.warned = CopyAfterCloseSucceeds(q.Body)]
    ELSE [q EXCEPT !.pc = "acquire"]

\* "Restore the body for this attempt" handing every attempt the one reader
\* the first attempt got, at the position the round trips have left it
RestoreBodySharesReader(c, q) ==
    IF q.bodyBytes > 0
    THEN [c EXCEPT !.Body = ReaderBody(q.bodyBytes - q.read, "NopCloser"),
                   !.ContentLength = q.bodyBytes,
                   !.ContentLengthHeader = <<q.bodyBytes>>]
    ELSE [c EXCEPT !.Body = NoBody, !.ContentLength = 0, !.ContentLengthHeader = <<>>]

\* "Restore the body for this attempt" leaving the clone as it is when
\* nothing was buffered
RestoreBodyKeepsClone(c, q) ==
    IF q.bodyBytes > 0
    THEN [c EXCEPT !.Body = ReaderBody(q.bodyBytes, "NopCloser"),
                   !.ContentLength = q.bodyBytes,
                   !.ContentLengthHeader = <<q.bodyBytes>>]
    ELSE c

\* "Restore the body for this attempt" on the clone c of the request q: a new
\* reader over all of bodyBytes with its length, or http.NoBody, length 0 and
\* the Content-Length header deleted
RestoreBody(c, q) ==
    IF q.bodyBytes > 0
    THEN [c EXCEPT !.Body = ReaderBody(q.bodyBytes, "NopCloser"),
                   !.ContentLength = q.bodyBytes,
                   !.ContentLengthHeader = <<q.bodyBytes>>]
    ELSE [c EXCEPT !.Body = NoBody, !.ContentLength = 0, !.ContentLengthHeader = <<>>]

\* how many bytes of the body it is handed a round trip may read: none of
\* them or all of them
Reads(body) == IF body.kind = "reader" THEN {0, body.len} ELSE {0}

\* RoundTrip's locals before the loop; calls, marks and started are history:
\* the number of underlying round trips made, the indices passed to
\* markKeyFailed, and the number of requests the proxy has taken per scope.
\* read is the number of bytes the latest underlying round trip read of its body.
\* req.Context(): err is what ctx.Err() returns; at and attempt are history,
\* the position of RoundTrip and its attempt counter when the client went away.
Background == [err |-> "", at |-> "", attempt |-> 0]

IdleRequest ==
    [pc |-> "idle", host |-> "", path |-> "", attempt |-> 0, keyIndex |-> -1, apiKey |-> "",
     resp |-> 0, lastErr |-> "", ret |-> NoReturn, calls |-> 0, marks |-> <<>>,
     started |-> [s \in Scopes |-> 0],
     Header |-> NoHeader, Query |-> NoQuery, currentReq |-> NoRequest,
     Method |-> "GET", Body |-> NoBody, bodyBytes |-> 0, warned |-> FALSE,
     ctx |-> Background, read |-> 0]

ScopeOfRequest == buildScopeKey(req.host, req.path)

\* ------------------------------------------------------ the body rewrite
\* A body is the text a client sent (marshalled FALSE) or the output of
\* json.Marshal (marshalled TRUE), and what encoding/json reads in it: text
\* that does not parse, null, a value that is no object, or an object with
\* the text of its message and its "tools".  A tool of a tools array, and a
\* key of a tools object, is one of ToolKeys.
ToolKeys == {"functionDeclarations", "google_search", "code_execution"}

MaxTools == 2

NoTools == [shape |-> "absent"]
ToolsList(items) == [shape |-> "list", items |-> items]
ToolsMap(keys) == [shape |-> "map", keys |-> keys]
ToolsOther == [shape |-> "other"]

ToolsValues ==
    {NoTools, ToolsOther}
        \cup {ToolsList(items) : items \in UNION {[1..n -> ToolKeys] : n \in 0..MaxTools}}
        \cup {ToolsMap(keys) : keys \in SUBSET ToolKeys}

\* the texts of a message, each as its words
Texts == {"", "hello world", "please Search the web", "researching"}

WordsOf(text) ==
    CASE text = "hello world"           -> {"hello", "world"}
      [] text = "please Search the web" -> {"please", "search", "the", "web"}
      [] text = "researching"           -> {"researching"}
      [] OTHER                          -> {}

JSONObject(text, tools) == [kind |-> "object", text |-> text, tools |-> tools]

JSONValues ==
    {[kind |-> "invalid"], [kind |-> "null"], [kind |-> "array"], [kind |-> "string"]}
        \cup {JSONObject(text, tools) : text \in Texts, tools \in ToolsValues}

ClientBody(json) == [json |-> json, marshalled |-> FALSE]

\* json.Marshal(requestData)
Marshal(json) == [json |-> json, marshalled |-> TRUE]

\* what the rewrite hands back: the bytes, the error, or a panic
Returned(body) == [body |-> body, err |-> "", panic |-> ""]
Failed(err) == [body |-> [json |-> [kind |-> "invalid"], marshalled |-> FALSE], err |-> err, panic |-> ""]
Panicked(panic) == [body |-> [json |-> [kind |-> "invalid"], marshalled |-> FALSE], err |-> "", panic |-> panic]

\* triggerRegex.MatchString(text) for some part: the trigger as a whole word,
\* whatever its case
triggerFound(json, searchTrigger) == searchTrigger \in WordsOf(json.text)

hasFunctionDeclarations(tools) ==
    \/ tools.shape = "list" /\ \E i \in 1..Len(tools.items) : tools.items[i] = "functionDeclarations"
    \/ tools.shape = "map" /\ "functionDeclarations" \in tools.keys

googleSearchAlreadyPresent(tools) ==
    \/ tools.shape = "list" /\ \E i \in 1..Len(tools.items) : tools.items[i] = "google_search"
    \/ tools.shape = "map" /\ "google_search" \in tools.keys

OnlyGoogleSearch == ToolsList(<<"google_search">>)

\* the modification logic that leaves a tools object's functionDeclarations in place
ModifiedToolsKeepsDeclarations(json, searchTrigger) ==
    LET tools == json.tools
    IN IF triggerFound(json, searchTrigger)
       THEN IF tools.shape = "map"
            THEN ToolsMap(tools.keys \cup {"google_search"})
            ELSE OnlyGoogleSearch
       ELSE IF hasFunctionDeclarations(tools) THEN tools
       ELSE IF tools.shape = "list"
       THEN IF googleSearchAlreadyPresent(tools) THEN tools
            ELSE ToolsList(Append(tools.items, "google_search"))
       ELSE IF tools.shape = "map" THEN ToolsMap(tools.keys \cup {"google_search"})
       ELSE OnlyGoogleSearch

\* "Apply modification logic": the tools the rewrite leaves in the object
ModifiedTools(json, searchTrigger) ==
    LET tools == json.tools
    IN IF triggerFound(json, searchTrigger)
       THEN IF tools.shape = "map"
            THEN ToolsMap((tools.keys \ {"functionDeclarations"}) \cup {"google_search"})
            ELSE OnlyGoogleSearch
       ELSE IF hasFunctionDeclarations(tools) THEN tools
       ELSE IF tools.shape = "list"
       THEN IF googleSearchAlreadyPresent(tools) THEN tools
            ELSE ToolsList(Append(tools.items, "google_search"))
       ELSE IF tools.shape = "map" THEN ToolsMap(tools.keys \cup {"google_search"})
       ELSE OnlyGoogleSearch

\* the flag modified: every branch that assigns sets it, whether or not the
\* value changes, except the two on a tools object, which test first
modified(json, searchTrigger) ==
    LET tools == json.tools
    IN IF triggerFound(json, searchTrigger)
       THEN tools.shape = "map" => ModifiedTools(json, searchTrigger) # tools
       ELSE ModifiedTools(json, searchTrigger) # tools

\* modifyBodyWithGoogleSearch(bodyBytes, searchTrigger): json.Unmarshal into a
\* map fails on text that does not parse and on a value that is no object and
\* not null; null leaves the map nil, and the assignment to "tools" panics
modifyBodyWithGoogleSearch(bodyBytes, searchTrigger) ==
    LET json == bodyBytes.json
    IN IF json.kind \in {"invalid", "array", "string"}
       THEN Returned(bodyBytes)
       ELSE IF json.kind = "null"
       THEN Panicked("assignment to entry in nil map")
       ELSE IF ~modified(json, searchTrigger)
       THEN Returned(bodyBytes)
       ELSE Returned(Marshal([json EXCEPT !.tools = ModifiedTools(json, searchTrigger)]))

\* an io.ReadCloser: the bytes it yields, and whether reading it fails
Reader(body, readErr) == [body |-> body, readErr |-> readErr]

\* handlePostBody(body, addGoogleSearch, searchTrigger)
handlePostBody(body, addGoogleSearch, searchTrigger) ==
    IF body.readErr THEN Failed("failed to read request body")
    ELSE IF ~addGoogleSearch THEN Returned(body.body)
    ELSE modifyBodyWithGoogleSearch(body.body, searchTrigger)

\* ------------------------------------------------- the proxy's handlers
\* a ResponseWriter nothing was written to: the status the client gets, the
\* number of WriteHeader calls, the lines http.Error printed to the body, and
\* the headers the front handler set
NothingWritten == [status |-> 0, wrote |-> 0, lines |-> <<>>, Header |-> {}]

StatusRequestTimeout == 408
StatusBadGateway == 502

\* http.Error(w, error, code): WriteHeader(code), of which only the first call
\* counts, then Fprintln(w, error)
httpError(w, error, code) ==
    [status |-> IF w.wrote = 0 THEN code ELSE w.status,
     wrote  |-> w.wrote + 1,
     lines  |-> Append(w.lines, error),
     Header |-> w.Header]

\* the response of a non-retryable attempt written through to the client
CopyResponseTo(w, status) == [w EXCEPT !.status = status, !.wrote = 1]

CopyResponse(status) == CopyResponseTo(NothingWritten, status)

\* err.Error() of what RoundTrip returned for request q
Error(q) ==
    IF q.ret.err # "proxyErrorWithStatus" THEN q.ret.err
    ELSE IF q.ret.cause # ""
    THEN "scope '" \o buildScopeKey(q.host, q.path) \o "': failed to get API key (attempt "
             \o ToString(q.attempt + 1) \o "): " \o q.ret.cause
    ELSE "upstream server returned status " \o ToString(q.ret.StatusCode) \o " after "
             \o ToString(maxRetries) \o " attempts (scope '" \o buildScopeKey(q.host, q.path) \o "')"

\* the error handler without its branch for context.Canceled
ErrorHandlerNoCanceled(w, err, text) ==
    IF err.err = "proxyErrorWithStatus"
    THEN httpError(w, text, err.StatusCode)
    ELSE httpError(w, "Proxy Error: Upstream server failed after retries", StatusBadGateway)

\* the function createProxyErrorHandler returns, applied to the writer w and
\* an error of kind err.err whose message is text
ErrorHandler(w, err, text) ==
    IF err.err = "proxyErrorWithStatus"
    THEN httpError(w, text, err.StatusCode)
    ELSE IF err.err = "canceled"
    THEN httpError(w, "Client connection closed", StatusRequestTimeout)
    ELSE httpError(w, "Proxy Error: Upstream server failed after retries", StatusBadGateway)

\* resp.Request.Context().Value(keyIndexContextKey) and its assertion to int
NoIndex == [ok |-> FALSE, index |-> 0]

CtxIndex(i) == [ok |-> TRUE, index |-> i]

\* the scope the response post-processor marks under: host|path of resp.Request.URL
ResponseScope(host, path) == buildScopeKey(host, path)

\* the post-processor's test without its exception for 429
marksOnStatusAny4xx(status) ==
    /\ (status < 200 \/ status >= 300)
    /\ status >= 400 /\ status < 500

\* the post-processor's test with its lower bound off by one
marksOnStatusAbove400(status) ==
    /\ (status < 200 \/ status >= 300)
    /\ status > 400 /\ status < 500 /\ status # StatusTooManyRequests

\* the post-processor marks on a client error other than 429
marksOnStatus(status) ==
    /\ (status < 200 \/ status >= 300)
    /\ status >= 400 /\ status < 500 /\ status # StatusTooManyRequests

\* the post-processor only logging the status
ModifyResponseOnlyLogs(sc, host, path, keyIndexVal, status, t) ==
    [scopes |-> sc, err |-> ""]

\* the post-processor going on with the zero index when the context has none
ModifyResponseIgnoresOk(sc, host, path, keyIndexVal, status, t) ==
    IF marksOnStatus(status)
    THEN [scopes |-> markKeyFailed(sc, ResponseScope(host, path), keyIndexVal.index, t), err |-> ""]
    ELSE [scopes |-> sc, err |-> ""]

\* the function createProxyModifyResponse returns, applied at clock reading t
\* to a response with this status whose request has this URL and context:
\* the scopes it leaves and the error it returns
ModifyResponse(sc, host, path, keyIndexVal, status, t) ==
    IF ~keyIndexVal.ok
    THEN [scopes |-> sc, err |-> ""]
    ELSE IF marksOnStatus(status)
    THEN [scopes |-> markKeyFailed(sc, ResponseScope(host, path), keyIndexVal.index, t), err |-> ""]
    ELSE [scopes |-> sc, err |-> ""]

\* what a post-processor step reports: the response's scope, context value and
\* status, whether it sidelined a key, the error it returned, and the branch
\* it took
Processed(sc, host, path, keyIndexVal, status) ==
    [op |-> "ModifyResponse",
     scope |-> ResponseScope(host, path),
     keyIndexVal |-> keyIndexVal,
     status |-> status,
     n |-> IF keyIndexVal.ok /\ marksOnStatus(status)
                /\ Sidelines(sc, ResponseScope(host, path), keyIndexVal.index)
           THEN 1 ELSE 0,
     err |-> ModifyResponse(sc, host, path, keyIndexVal, status, 0).err,
     branch |-> IF ~keyIndexVal.ok THEN "no key index"
                ELSE IF marksOnStatus(status) THEN "client error"
                ELSE "nothing to mark"]

NoteProcessed(m, sc, host, path, keyIndexVal, status, t) ==
    IF keyIndexVal.ok /\ marksOnStatus(status)
    THEN NoteMarked(m, sc, ResponseScope(host, path), keyIndexVal.index, t)
    ELSE m

\* ------------------------------------------------------- the pool's mutex
\* The goroutines that call the pool: request goroutines (each runs RoundTrip
\* for one inbound request) and the one started by `go km.reactivationLoop()`.
RequestTasks == {"request1", "request2"}

ReactivationTask == "reactivation"

Tasks == RequestTasks \cup {ReactivationTask}

NoHolder == ""

NoKey == [key |-> "", index |-> -1, err |-> ""]

\* A goroutine outside the pool. Inside a call: op is the method, scope,
\* keyIndex and startIndex its arguments and its rand.IntN draw, t its reading
\* of time.Now(), entry the scopes map as it was when the mutex was taken,
\* sweeping and index the scope and failingKeys entry a reactivation loop is at,
\* ret what getNextKey returns.
IdleTask ==
    [pc |-> "idle", op |-> "", scope |-> "", keyIndex |-> -1, startIndex |-> 0, t |-> 0,
     entry |-> EmptyMap, sweeping |-> "", index |-> -1, ret |-> NoKey]

\* ------------------------------------------------------------------ Init
\* The state newKeyManager leaves when it succeeds on one of the lists.
ConstructedWith(keyLists, transports, handlers) ==
    /\ originalKeys \in keyLists
    /\ removalDuration \in Durations
    /\ newKeyManager(originalKeys, removalDuration) = ""
    /\ scopes = EmptyMap
    /\ now = 0
    /\ lastOp = [op |-> "newKeyManager", n |-> 0, err |-> ""]
    /\ markedAt = [s \in Scopes |-> EmptyMap]
    /\ req = IdleRequest
    /\ rw = NothingWritten
    /\ rt \in transports
    /\ handler \in handlers
    /\ mu = NoHolder
    /\ tasks = [task \in Tasks |-> IdleTask]

\* The state main leaves with its flags at their defaults.
Constructed(keyLists) == ConstructedWith(keyLists, {DefaultTransport}, {DefaultHandler})

Init == Constructed(KeyLists(MaxKeys))

InitPool == Constructed(KeyLists(MaxPoolKeys))

\* ------------------------------------------------- direct pool operations
\* A caller of the pool (as key_manager_test.go is) acquires a key.
CallGetNextKey(scope) ==
    \E t \in now..MaxTime, startIndex \in Indices :
        /\ scopes' = getNextKey(scopes, scope, t, startIndex).scopes
        /\ now' = t
        /\ lastOp' = Acquired(scopes, scope, t, startIndex)
        /\ markedAt' = Recent(markedAt, t)
        /\ UNCHANGED <<mu, tasks, handler, rt, originalKeys, removalDuration, req, rw>>

\* A caller of the pool marks any index, valid or not.
CallMarkKeyFailed(scope, keyIndex) ==
    \E t \in now..MaxTime :
        /\ scopes' = markKeyFailed(scopes, scope, keyIndex, t)
        /\ markedAt' = Recent(NoteMarked(markedAt, scopes, scope, keyIndex, t), t)
        /\ lastOp' = Marked(scopes, scope, keyIndex)
        /\ now' = t
        /\ UNCHANGED <<mu, tasks, handler, rt, originalKeys, removalDuration, req, rw>>

\* reactivationLoop: the ticker fires and reactivateKeys sweeps every scope.
reactivationLoop ==
    \E t \in now..MaxTime :
        /\ scopes' = reactivateKeys(scopes, t)
        /\ now' = t
        /\ lastOp' = Swept(scopes, t)
        /\ markedAt' = Recent(markedAt, t)
        /\ UNCHANGED <<mu, tasks, handler, rt, originalKeys, removalDuration, req, rw>>

MarkArgs == -1..MaxPoolKeys

NextPool ==
    \/ \E scope \in Scopes : CallGetNextKey(scope)
    \/ \E scope \in Scopes, keyIndex \in MarkArgs : CallMarkKeyFailed(scope, keyIndex)
    \/ reactivationLoop

SpecPool == InitPool /\ [][NextPool]_vars

\* ------------------------------------------------------- the sweep's ticker
\* Here a clock reading is 30 seconds, and removalDuration is in that unit.
\* time.NewTicker(1 * time.Minute): two readings between sweeps.
tickerPeriod == 2

\* the ticker is started by newKeyManager, at reading 0; the t of the
\* reactivation task is the reading at which it last fired
NextTick == tasks[ReactivationTask].t + tickerPeriod

\* for range ticker.C { km.reactivateKeys() }
TickerFires ==
    /\ now <= NextTick
    /\ NextTick <= MaxTime
    /\ scopes' = reactivateKeys(scopes, NextTick)
    /\ now' = NextTick
    /\ lastOp' = Swept(scopes, NextTick)
    /\ markedAt' = Recent(markedAt, NextTick)
    /\ tasks' = [tasks EXCEPT ![ReactivationTask].t = NextTick]
    /\ UNCHANGED <<mu, handler, rt, originalKeys, removalDuration, req, rw>>

\* the clock does not pass the reading of a tick before the sweep of that tick
NextTicker ==
    \/ (\E scope \in Scopes : CallGetNextKey(scope)) /\ now' <= NextTick
    \/ (\E scope \in Scopes, keyIndex \in MarkArgs : CallMarkKeyFailed(scope, keyIndex))
          /\ now' <= NextTick
    \/ TickerFires

SpecTicker == InitPool /\ [][NextTicker]_vars

\* ----------------------------------------------------------- construction
\* The durations newKeyManager is called with: negative, zero and positive.
ConstructionDurations == -1..MaxDuration

\* No keyManager: newKeyManager has not been called, or it returned nil.
NoPool == originalKeys = <<>> /\ removalDuration = 0 /\ scopes = EmptyMap

\* Before the caller (main, or a test) has called newKeyManager.
InitConstruct ==
    /\ NoPool
    /\ now = 0
    /\ lastOp = [op |-> "main", n |-> 0, err |-> ""]
    /\ markedAt = [s \in Scopes |-> EmptyMap]
    /\ req = IdleRequest
    /\ rw = NothingWritten
    /\ rt = DefaultTransport
    /\ handler = DefaultHandler
    /\ mu = NoHolder
    /\ tasks = [task \in Tasks |-> IdleTask]

\* newKeyManager(keys, duration) is called: it returns (nil, err), or the
\* keyManager with originalKeys, removalDuration and an empty scopes map.
CallNewKeyManager(keys, duration) ==
    /\ lastOp.op = "main"
    /\ LET err == newKeyManager(keys, duration)
       IN /\ lastOp' = [op |-> "newKeyManager", n |-> 0, err |-> err,
                        keys |-> keys, duration |-> duration]
          /\ IF err # ""
             THEN UNCHANGED <<originalKeys, removalDuration, scopes>>
             ELSE /\ originalKeys' = keys
                  /\ removalDuration' = duration
                  /\ scopes' = EmptyMap
    /\ UNCHANGED <<mu, tasks, handler, rt, now, markedAt, req, rw>>

\* the keyManager is used only if newKeyManager returned one
UsePool == ~NoPool /\ NextPool

NextConstruct ==
    \/ \E keys \in KeyLists(MaxPoolKeys), duration \in ConstructionDurations :
          CallNewKeyManager(keys, duration)
    \/ UsePool

SpecConstruct == InitConstruct /\ [][NextConstruct]_vars

\* ------------------------------------------- pool operations, step by step
\* The pool's methods as their goroutines run them: statement by statement
\* between km.mu.Lock() and the deferred km.mu.Unlock(), interleaved with the
\* other goroutines.
InCall(task, op, pc) == tasks[task].op = op /\ tasks[task].pc = pc

LockFrame == UNCHANGED <<handler, rt, originalKeys, removalDuration, lastOp, markedAt, req, rw>>

\* a request goroutine calls getNextKey and reaches km.mu.Lock(). (The
\* arguments of a call, which no other goroutine can see, are drawn where the
\* method first reads them.)
EnterGetNextKey(task) ==
    /\ tasks[task].pc = "idle"
    /\ tasks' = [tasks EXCEPT ![task] = [IdleTask EXCEPT !.pc = "lock", !.op = "getNextKey"]]
    /\ UNCHANGED <<scopes, now, mu>>
    /\ LockFrame

\* a request goroutine calls markKeyFailed and reaches km.mu.Lock()
EnterMarkKeyFailed(task) ==
    /\ tasks[task].pc = "idle"
    /\ tasks' = [tasks EXCEPT ![task] = [IdleTask EXCEPT !.pc = "lock", !.op = "markKeyFailed"]]
    /\ UNCHANGED <<scopes, now, mu>>
    /\ LockFrame

\* the ticker of reactivationLoop fires: reactivateKeys reaches km.mu.Lock()
EnterReactivateKeys(task) ==
    /\ tasks[task].pc = "idle"
    /\ tasks' = [tasks EXCEPT ![task] = [IdleTask EXCEPT !.pc = "lock", !.op = "reactivateKeys"]]
    /\ UNCHANGED <<scopes, now, mu>>
    /\ LockFrame

\* a Lock that returns at once, whoever holds the mutex
LockWithoutWaiting(task) ==
    /\ tasks[task].pc = "lock"
    /\ mu' = task
    /\ tasks' = [tasks EXCEPT ![task].pc = "locked", ![task].entry = scopes]
    /\ UNCHANGED <<scopes, now>>
    /\ LockFrame

\* km.mu.Lock(): returns when no goroutine holds the mutex
Lock(task) ==
    /\ tasks[task].pc = "lock"
    /\ mu = NoHolder
    /\ mu' = task
    /\ tasks' = [tasks EXCEPT ![task].pc = "locked", ![task].entry = scopes]
    /\ UNCHANGED <<scopes, now>>
    /\ LockFrame

\* getNextKey(scope) from its first statement to the branch on len(state.availableKeys)
GetNextKeyBody(task, scope) ==
    /\ InCall(task, "getNextKey", "locked")
    /\ LET sc1   == getOrCreateScopeState(scopes, scope)
           state == sc1[scope]
       IN IF numOriginalKeys = 0
          THEN /\ tasks' = [tasks EXCEPT ![task].pc = "unlock", ![task].scope = scope,
                                         ![task].ret = [NoKey EXCEPT !.err = ErrEmptyList]]
               /\ UNCHANGED <<scopes, now>>
          ELSE /\ scopes' = sc1
               /\ IF DOMAIN state.availableKeys # {}
                  THEN /\ tasks' = [tasks EXCEPT ![task].pc = "probe", ![task].scope = scope]
                       /\ now' = now
                  ELSE IF Cardinality(DOMAIN state.failingKeys) > 0
                          /\ Cardinality(DOMAIN state.failingKeys) = validOriginalKeyCount
                       THEN \E t \in now..MaxTime :
                               /\ now' = t
                               /\ tasks' = [tasks EXCEPT ![task].pc = "sweep", ![task].t = t,
                                                         ![task].scope = scope]
                       ELSE /\ tasks' = [tasks EXCEPT ![task].pc = "unlock", ![task].scope = scope,
                                            ![task].ret = [NoKey EXCEPT !.err = ErrNoneConfigured]]
                            /\ now' = now
    /\ UNCHANGED mu
    /\ LockFrame

\* markKeyFailed(scope, keyIndex) from its first statement to
\* reactivationTime := time.Now().Add(km.removalDuration)
MarkKeyFailedBody(task, scope, keyIndex) ==
    /\ InCall(task, "markKeyFailed", "locked")
    /\ LET sc1 == getOrCreateScopeState(scopes, scope)
       IN /\ scopes' = sc1
          /\ IF keyIndex \in DOMAIN sc1[scope].availableKeys
             THEN \E t \in now..MaxTime :
                     /\ now' = t
                     /\ tasks' = [tasks EXCEPT ![task].pc = "mark-set", ![task].t = t,
                                               ![task].scope = scope, ![task].keyIndex = keyIndex]
             ELSE /\ tasks' = [tasks EXCEPT ![task].pc = "unlock",
                                            ![task].scope = scope, ![task].keyIndex = keyIndex]
                  /\ now' = now
    /\ UNCHANGED mu
    /\ LockFrame

\* state.failingKeys[keyIndex] = reactivationTime
MarkKeyFailedSet(task) ==
    /\ InCall(task, "markKeyFailed", "mark-set")
    /\ LET me == tasks[task]
       IN scopes' = [scopes EXCEPT ![me.scope].failingKeys =
                        MapSet(@, me.keyIndex, me.t + removalDuration)]
    /\ tasks' = [tasks EXCEPT ![task].pc = "mark-delete"]
    /\ UNCHANGED <<now, mu>>
    /\ LockFrame

\* delete(state.availableKeys, keyIndex)
MarkKeyFailedDelete(task) ==
    /\ InCall(task, "markKeyFailed", "mark-delete")
    /\ LET me == tasks[task]
       IN scopes' = [scopes EXCEPT ![me.scope].availableKeys = MapDelete(@, me.keyIndex)]
    /\ tasks' = [tasks EXCEPT ![task].pc = "unlock"]
    /\ UNCHANGED <<now, mu>>
    /\ LockFrame

\* reactivateKeys: now := time.Now()
ReactivateKeysBody(task) ==
    /\ InCall(task, "reactivateKeys", "locked")
    /\ \E t \in now..MaxTime :
          /\ now' = t
          /\ tasks' = [tasks EXCEPT ![task].pc = "sweep", ![task].t = t]
    /\ UNCHANGED <<scopes, mu>>
    /\ LockFrame

\* the scopes a goroutine's reactivation loop ranges over: all for
\* reactivateKeys, the caller's for reactivateScopeKeys
SweepScopes(task) ==
    IF tasks[task].op = "reactivateKeys" THEN DOMAIN scopes ELSE {tasks[task].scope}

\* the failingKeys entries the loop has yet to reactivate: now.After(reactivateTime)
Due(task) ==
    {e \in UNION {{<<s, i>> : i \in DOMAIN scopes[s].failingKeys} : s \in SweepScopes(task)} :
        tasks[task].t > scopes[e[1]].failingKeys[e[2]]}

\* the loop reaches an entry that is due (range over a map: in any order):
\* state.availableKeys[index] = km.originalKeys[index], or for an index that
\* names no credential, delete(state.failingKeys, index)
ReactivateAdd(task) ==
    /\ tasks[task].pc = "sweep"
    /\ \E e \in Due(task) :
          LET s == e[1]
              index == e[2]
          IN IF index >= 0 /\ index < numOriginalKeys /\ KeyAt(index) # ""
             THEN /\ scopes' = [scopes EXCEPT ![s].availableKeys = MapSet(@, index, KeyAt(index))]
                  /\ tasks' = [tasks EXCEPT ![task].pc = "reactivate-delete",
                                            ![task].sweeping = s, ![task].index = index]
             ELSE /\ scopes' = [scopes EXCEPT ![s].failingKeys = MapDelete(@, index)]
                  /\ UNCHANGED tasks
    /\ UNCHANGED <<now, mu>>
    /\ LockFrame

\* delete(state.failingKeys, index) after the entry was added back
ReactivateDelete(task) ==
    /\ tasks[task].pc = "reactivate-delete"
    /\ LET me == tasks[task]
       IN scopes' = [scopes EXCEPT ![me.sweeping].failingKeys = MapDelete(@, me.index)]
    /\ tasks' = [tasks EXCEPT ![task].pc = "sweep"]
    /\ UNCHANGED <<now, mu>>
    /\ LockFrame

\* the loop ends: reactivateKeys returns, getNextKey goes on to its second
\* test of len(state.availableKeys)
ReactivateDone(task) ==
    /\ tasks[task].pc = "sweep"
    /\ Due(task) = {}
    /\ LET me == tasks[task]
       IN IF me.op = "reactivateKeys"
          THEN tasks' = [tasks EXCEPT ![task].pc = "unlock"]
          ELSE IF DOMAIN scopes[me.scope].availableKeys = {}
               THEN tasks' = [tasks EXCEPT ![task].pc = "unlock",
                                ![task].ret = [NoKey EXCEPT !.err = ErrAllFailing]]
               ELSE tasks' = [tasks EXCEPT ![task].pc = "probe"]
    /\ UNCHANGED <<scopes, now, mu>>
    /\ LockFrame

\* getNextKey, step 2: the probe from rand.IntN's draw, and the return statement
GetNextKeyProbe(task) ==
    /\ InCall(task, "getNextKey", "probe")
    /\ \E startIndex \in Indices :
          LET g == Selected(scopes, tasks[task].scope, startIndex, FALSE)
          IN tasks' = [tasks EXCEPT ![task].pc = "unlock", ![task].startIndex = startIndex,
                                    ![task].ret = [key |-> g.key, index |-> g.index, err |-> g.err]]
    /\ UNCHANGED <<scopes, now, mu>>
    /\ LockFrame

\* the deferred km.mu.Unlock() runs and the method returns to its caller
Unlock(task) ==
    /\ tasks[task].pc = "unlock"
    /\ mu' = NoHolder
    /\ tasks' = [tasks EXCEPT ![task] = IdleTask]
    /\ UNCHANGED <<scopes, now>>
    /\ LockFrame

NextLock ==
    \/ \E task \in RequestTasks : EnterGetNextKey(task)
    \/ \E task \in RequestTasks : EnterMarkKeyFailed(task)
    \/ EnterReactivateKeys(ReactivationTask)
    \/ \E task \in Tasks : Lock(task)
    \/ \E task \in Tasks, scope \in Scopes : GetNextKeyBody(task, scope)
    \/ \E task \in Tasks, scope \in Scopes, keyIndex \in MarkArgs :
          MarkKeyFailedBody(task, scope, keyIndex)
    \/ \E task \in Tasks : MarkKeyFailedSet(task)
    \/ \E task \in Tasks : MarkKeyFailedDelete(task)
    \/ \E task \in Tasks : ReactivateKeysBody(task)
    \/ \E task \in Tasks : ReactivateAdd(task)
    \/ \E task \in Tasks : ReactivateDelete(task)
    \/ \E task \in Tasks : ReactivateDone(task)
    \/ \E task \in Tasks : GetNextKeyProbe(task)
    \/ \E task \in Tasks : Unlock(task)

SpecLock == InitPool /\ [][NextLock]_vars

\* ------------------------------------------------------------- RoundTrip
\* RoundTrip is entered with a request for some host and path.
RoundTripBegin ==
    /\ req.pc = "idle"
    /\ \E host \in Hosts, path \in Paths :
          req' = Buffered([IdleRequest EXCEPT !.host = host, !.path = path])
    /\ lastOp' = [op |-> "RoundTrip", n |-> 0, err |-> ""]
    /\ UNCHANGED <<mu, tasks, handler, rt, originalKeys, removalDuration, scopes, now, markedAt, rw>>

\* the top of the retry loop going on to send the attempt when getNextKey failed
RoundTripAcquireSendsAnyway ==
    /\ req.pc = "acquire"
    /\ \E t \in now..MaxTime, startIndex \in Indices :
          LET g == getNextKey(scopes, ScopeOfRequest, t, startIndex)
          IN /\ scopes' = g.scopes
             /\ now' = t
             /\ lastOp' = Acquired(scopes, ScopeOfRequest, t, startIndex)
             /\ markedAt' = Recent(markedAt, t)
             /\ req' = [req EXCEPT !.pc = "send", !.keyIndex = g.index, !.apiKey = g.key]
    /\ UNCHANGED <<mu, tasks, handler, rt, originalKeys, removalDuration, rw>>

\* Top of the retry loop: build the scope key, get a key for the attempt,
\* clone the request and apply the authentication to the clone.
RoundTripAcquire ==
    /\ req.pc = "acquire"
    /\ \E t \in now..MaxTime, startIndex \in Indices :
          LET g == getNextKey(scopes, ScopeOfRequest, t, startIndex)
          IN /\ scopes' = g.scopes
             /\ now' = t
             /\ lastOp' = Acquired(scopes, ScopeOfRequest, t, startIndex)
             /\ markedAt' = Recent(markedAt, t)
             /\ req' = IF g.err # ""
                       THEN [req EXCEPT !.pc = "done", !.ret = KeyErrorReturn(g.err)]
                       ELSE [req EXCEPT !.pc = "send", !.keyIndex = g.index, !.apiKey = g.key,
                                        !.currentReq = ApplyAuthentication(rt, RestoreBody(Clone(req), req),
                                                                          req.path, g.key)]
    /\ UNCHANGED <<mu, tasks, handler, rt, originalKeys, removalDuration, rw>>

\* The request after the underlying round trip of this attempt answered out.
Answered(q, out) ==
    [q EXCEPT !.resp = out.status, !.lastErr = out.err, !.calls = @ + 1,
              !.marks = IF marksKey(out) THEN Append(@, q.keyIndex) ELSE @]

\* "Decide Action" giving up one attempt late (attempt == maxRetries)
DecideOneMore(q, out) ==
    IF ~shouldRetry(out)
    THEN [q EXCEPT !.pc = "done", !.ret = AttemptReturn(out)]
    ELSE IF q.attempt = maxRetries
    THEN [q EXCEPT !.pc = "done", !.ret = ExhaustedReturn(out)]
    ELSE [q EXCEPT !.pc = "acquire", !.attempt = @ + 1]

\* "Decide Action": return, give up after the last attempt, or go round again.
Decide(q, out) ==
    IF ~shouldRetry(out)
    THEN [q EXCEPT !.pc = "done", !.ret = AttemptReturn(out)]
    ELSE IF q.attempt = maxRetries - 1
    THEN [q EXCEPT !.pc = "done", !.ret = ExhaustedReturn(out)]
    ELSE [q EXCEPT !.pc = "acquire", !.attempt = @ + 1]

CanceledOutcome == [status |-> 0, err |-> "canceled"]

\* What rt.underlyingTransport.RoundTrip(currentReq) can answer: currentReq is
\* cloned with the caller's context, and a round trip started on a canceled
\* context returns the context's error without sending.
Underlying(q, outs) == IF q.ctx.err # "" THEN {CanceledOutcome} ELSE outs

\* The underlying round trip answers with one of outs; the attempt is
\* classified, the key is marked on a 429, and the loop returns, gives up or
\* goes round again.
RoundTripAttemptOf(outs) ==
    /\ req.pc = "send"
    /\ \E out \in Underlying(req, outs), t \in now..MaxTime, read \in Reads(req.currentReq.Body) :
          /\ IF marksKey(out)
             THEN /\ scopes' = markKeyFailed(scopes, ScopeOfRequest, req.keyIndex, t)
                  /\ markedAt' = Recent(NoteMarked(markedAt, scopes, ScopeOfRequest,
                                                   req.keyIndex, t), t)
                  /\ lastOp' = Marked(scopes, ScopeOfRequest, req.keyIndex)
                  /\ now' = t
             ELSE /\ t = now
                  /\ lastOp' = [op |-> "RoundTrip", n |-> 0, err |-> ""]
                  /\ UNCHANGED <<scopes, markedAt, now>>
          /\ req' = Decide(Answered([req EXCEPT !.read = read], out), out)
    /\ UNCHANGED <<mu, tasks, handler, rt, originalKeys, removalDuration, rw>>

RoundTripAttempt == RoundTripAttemptOf(Outcomes)

\* httputil.ReverseProxy hands the error RoundTrip returned to ErrorHandler.
ProxyErrorHandler ==
    /\ req.pc = "done"
    /\ req.ret.err # ""
    /\ rw' = ErrorHandler(rw, req.ret, Error(req))
    /\ req' = [req EXCEPT !.pc = "served"]
    /\ lastOp' = [op |-> "ErrorHandler", n |-> 0, err |-> ""]
    /\ UNCHANGED <<mu, tasks, handler, rt, originalKeys, removalDuration, scopes, now, markedAt>>

\* the proxy handing the last response to ModifyResponse also when RoundTrip
\* returned an error
ProxyModifyResponseOnAnyReturn ==
    /\ req.pc = "done"
    /\ \E t \in now..MaxTime :
          LET keyIndexVal == CtxIndex(req.keyIndex)
              status      == req.resp
              r           == ModifyResponse(scopes, req.host, req.path, keyIndexVal, status, t)
          IN /\ marksOnStatus(status) \/ t = now
             /\ scopes' = r.scopes
             /\ now' = t
             /\ markedAt' = Recent(NoteProcessed(markedAt, scopes, req.host, req.path,
                                                   keyIndexVal, status, t), t)
             /\ lastOp' = Processed(scopes, req.host, req.path, keyIndexVal, status)
             /\ rw' = IF r.err = "" THEN CopyResponseTo(rw, status) ELSE ErrorHandler(rw, [err |-> r.err], r.err)
    /\ req' = [req EXCEPT !.pc = "served"]
    /\ UNCHANGED <<mu, tasks, handler, rt, originalKeys, removalDuration>>

\* httputil.ReverseProxy hands the response RoundTrip returned to ModifyResponse
\* and then writes it to the client; the response's request is the clone of the
\* last attempt, whose context carries that attempt's key index.
ProxyModifyResponse ==
    /\ req.pc = "done"
    /\ req.ret.err = ""
    /\ \E t \in now..MaxTime :
          LET keyIndexVal == CtxIndex(req.keyIndex)
              status      == req.ret.resp
              r           == ModifyResponse(scopes, req.host, req.path, keyIndexVal, status, t)
          IN /\ marksOnStatus(status) \/ t = now
             /\ scopes' = r.scopes
             /\ now' = t
             /\ markedAt' = Recent(NoteProcessed(markedAt, scopes, req.host, req.path,
                                                   keyIndexVal, status, t), t)
             /\ lastOp' = Processed(scopes, req.host, req.path, keyIndexVal, status)
             /\ rw' = IF r.err = "" THEN CopyResponseTo(rw, status) ELSE ErrorHandler(rw, [err |-> r.err], r.err)
    /\ req' = [req EXCEPT !.pc = "served"]
    /\ UNCHANGED <<mu, tasks, handler, rt, originalKeys, removalDuration>>

Next ==
    \/ RoundTripBegin
    \/ RoundTripAcquire
    \/ RoundTripAttempt
    \/ ProxyModifyResponse
    \/ ProxyErrorHandler
    \/ reactivationLoop

Spec == Init /\ [][Next]_vars

\* RoundTrip runs on its goroutine: the mutex of the pool is released by every
\* holder and the underlying round trip returns, so its next step is taken.
SpecFair == Spec /\ WF_vars(RoundTripAcquire) /\ WF_vars(RoundTripAttempt)

\* ------------------------------------------------ direct calls of the rewrite
SearchTriggers == {"search"}

\* A caller (createMainHandler, or a test) calls handlePostBody on a body.
CallHandlePostBody ==
    /\ \E json \in JSONValues, readErr \in BOOLEAN, addGoogleSearch \in BOOLEAN,
          searchTrigger \in SearchTriggers :
          lastOp' = [op |-> "handlePostBody", n |-> 0, err |-> "",
                     body |-> Reader(ClientBody(json), readErr),
                     addGoogleSearch |-> addGoogleSearch,
                     searchTrigger |-> searchTrigger,
                     result |-> handlePostBody(Reader(ClientBody(json), readErr),
                                               addGoogleSearch, searchTrigger)]
    /\ UNCHANGED <<mu, tasks, handler, rt, originalKeys, removalDuration, scopes, now, markedAt,
                   req, rw>>

NextRewrite == CallHandlePostBody

SpecRewrite == InitPool /\ [][NextRewrite]_vars

\* ---------------------------------------------------------- request bodies
\* body sizes around the limit
BodyLengths == {0, 1, bodyReadLimit - 1, bodyReadLimit, bodyReadLimit + 1}

RequestBodies ==
    {NilBody, NoBody} \cup {ReaderBody(len, closer) : len \in BodyLengths, closer \in Closers}

BodyOutcomes == [status : {200, StatusTooManyRequests}, err : {""}]

\* RoundTrip is entered with a request of some method and body.
RoundTripBeginBody ==
    /\ req.pc = "idle"
    /\ \E host \in Hosts, path \in Paths, method \in Methods, body \in RequestBodies :
          req' = Buffered([IdleRequest EXCEPT !.host = host, !.path = path,
                                              !.Method = method, !.Body = body])
    /\ lastOp' = [op |-> "RoundTrip", n |-> 0, err |-> ""]
    /\ UNCHANGED <<mu, tasks, handler, rt, originalKeys, removalDuration, scopes, now, markedAt, rw>>

NextBody ==
    \/ RoundTripBeginBody
    \/ RoundTripAcquire
    \/ RoundTripAttemptOf(BodyOutcomes)
    \/ ProxyModifyResponse
    \/ ProxyErrorHandler

SpecBody == InitPool /\ [][NextBody]_vars

\* ------------------------------------------------------------ cancellation
\* The client goes away while RoundTrip runs: the request's context is canceled.
ClientCancels ==
    /\ req.pc \in {"acquire", "send"}
    /\ req.ctx.err = ""
    /\ req' = [req EXCEPT !.ctx = [err |-> "canceled", at |-> req.pc, attempt |-> req.attempt]]
    /\ UNCHANGED <<mu, tasks, handler, rt, originalKeys, removalDuration, scopes, now, lastOp,
                   markedAt, rw>>

CancelOutcomes == [status : {200, StatusTooManyRequests, 500}, err : {""}]

NextCancel ==
    \/ RoundTripBegin
    \/ ClientCancels
    \/ RoundTripAcquire
    \/ RoundTripAttemptOf(CancelOutcomes)
    \/ ProxyModifyResponse
    \/ ProxyErrorHandler

SpecCancel == InitPool /\ [][NextCancel]_vars

\* ------------------------------------------ direct calls of the handlers
\* statuses of the responses the post-processor is handed
ResponseStatuses == {200, 302, 400, 403, 429, 500}

\* what the context of the response's request holds under keyIndexContextKey
ContextValues == {NoIndex} \cup {CtxIndex(i) : i \in Indices}

\* A caller (as the handler tests are) hands the post-processor a response.  The
\* calls follow one another within one reading of the clock, which is read
\* only when a key is marked.
CallModifyResponse(host, path, keyIndexVal, status) ==
    /\ scopes' = ModifyResponse(scopes, host, path, keyIndexVal, status, now).scopes
    /\ markedAt' = Recent(NoteProcessed(markedAt, scopes, host, path, keyIndexVal, status, now), now)
    /\ lastOp' = Processed(scopes, host, path, keyIndexVal, status)
    /\ UNCHANGED <<mu, tasks, handler, rt, originalKeys, removalDuration, now, req, rw>>

NextHandlers ==
    \E host \in Hosts, path \in Paths, keyIndexVal \in ContextValues, status \in ResponseStatuses :
          CallModifyResponse(host, path, keyIndexVal, status)

SpecHandlers == Init /\ [][NextHandlers]_vars

\* ------------------------------------------------ logging a response body
\* resp.Body as a reader: the bytes it yields, and whether it then fails
\* instead of reaching EOF
ResponseReader(bytes, err) == [kind |-> "reader", bytes |-> bytes, err |-> err]

\* io.ReadAll(resp.Body): the bytes read and whether the read failed
ReadAll(body) == [bodyBytes |-> body.bytes, err |-> body.err]

\* logResponseBody leaving the body as the read left it, at its end
logResponseBodyDrains(body) ==
    IF body.kind # "reader"
    THEN [Body |-> body, logged |-> "no body"]
    ELSE IF ReadAll(body).err
    THEN [Body |-> ResponseReader("", FALSE), logged |-> "read error"]
    ELSE [Body |-> ResponseReader("", FALSE), logged |-> "body"]

\* logResponseBody(resp): the body it leaves in resp.Body and what it logged
logResponseBody(body) ==
    IF body.kind # "reader"
    THEN [Body |-> body, logged |-> "no body"]
    ELSE IF ReadAll(body).err
    THEN [Body |-> ResponseReader("", FALSE), logged |-> "read error"]
    ELSE [Body |-> ResponseReader(ReadAll(body).bodyBytes, FALSE), logged |-> "body"]

\* resp.Body after the post-processor: logResponseBody is called for a
\* non-2xx status, with or without a key index in the context
BodyAfterModifyResponse(status, body) ==
    IF status < 200 \/ status >= 300 THEN logResponseBody(body).Body ELSE body

\* the bodies of the responses the handler tests use, whole or cut by a failure
ResponseBodies ==
    {NilBody, NoBody}
        \cup {ResponseReader(bytes, err) :
                 bytes \in {"", "Bad input", "Access denied", "Success"}, err \in BOOLEAN}

\* The proxy hands the post-processor a response with a body.
CallModifyResponseBody(host, path, keyIndexVal, status, body) ==
    /\ scopes' = ModifyResponse(scopes, host, path, keyIndexVal, status, now).scopes
    /\ markedAt' = Recent(NoteProcessed(markedAt, scopes, host, path, keyIndexVal, status, now), now)
    /\ lastOp' = [op |-> "ModifyResponse", n |-> Processed(scopes, host, path, keyIndexVal, status).n,
                  err |-> ModifyResponse(scopes, host, path, keyIndexVal, status, now).err,
                  status |-> status, keyIndexVal |-> keyIndexVal,
                  upstream |-> body, Body |-> BodyAfterModifyResponse(status, body)]
    /\ UNCHANGED <<mu, tasks, handler, rt, originalKeys, removalDuration, now, req, rw>>

NextLog ==
    \E host \in Hosts, path \in Paths, keyIndexVal \in ContextValues, status \in ResponseStatuses,
       body \in ResponseBodies :
          CallModifyResponseBody(host, path, keyIndexVal, status, body)

SpecLog == InitPool /\ [][NextLog]_vars

\* ------------------------------------------- successive inbound requests
\* the endpoint the successive requests are for
ServePaths == {"/v1beta/models/gemini-pro"}

\* The proxy takes the next inbound request once the previous one was served.
ServeNext ==
    /\ req.pc \in {"idle", "served"}
    /\ \E host \in Hosts, path \in ServePaths :
          req' = Buffered([IdleRequest EXCEPT !.host = host, !.path = path])
    /\ lastOp' = [op |-> "RoundTrip", n |-> 0, err |-> ""]
    /\ rw' = NothingWritten
    /\ UNCHANGED <<mu, tasks, handler, rt, originalKeys, removalDuration, scopes, now, markedAt>>

NextServe ==
    \/ ServeNext
    \/ RoundTripAcquire
    \/ RoundTripAttempt
    \/ ProxyModifyResponse
    \/ ProxyErrorHandler
    \/ reactivationLoop

SpecServe == InitPool /\ [][NextServe]_vars

\* ----------------------------- requests to an upstream that answers 403
MaxRequests == 2

StatusForbidden == 403

\* an upstream that returns 403 for every request
AlwaysForbidden == {[status |-> StatusForbidden, err |-> ""]}

\* The proxy takes the next inbound request, for any of the endpoints, once
\* the previous one was served.
ServeCounted ==
    /\ req.pc \in {"idle", "served"}
    /\ \E host \in Hosts, path \in Paths :
          /\ req.started[buildScopeKey(host, path)] < MaxRequests
          /\ req' = Buffered([IdleRequest EXCEPT !.host = host, !.path = path,
                         !.started = [req.started EXCEPT ![buildScopeKey(host, path)] = @ + 1]])
    /\ lastOp' = [op |-> "RoundTrip", n |-> 0, err |-> ""]
    /\ rw' = NothingWritten
    /\ UNCHANGED <<mu, tasks, handler, rt, originalKeys, removalDuration, scopes, now, markedAt>>

NextForbidden ==
    \/ ServeCounted
    \/ RoundTripAcquire
    \/ RoundTripAttemptOf(AlwaysForbidden)
    \/ ProxyModifyResponse
    \/ ProxyErrorHandler
    \/ reactivationLoop

SpecForbidden == InitPool /\ [][NextForbidden]_vars

\* ------------------------------- requests that bring credentials of their own
\* the configurations of the transport: either parameter name, and no, one or
\* two header-auth entries
Transports ==
    [keyParam : QueryParams,
     headerAuthPaths : {<<>>, <<"/openai">>, <<"/models", "/chat/completions">>}]

\* what a client may send: an Authorization header, values for the parameters
ClientHeaders == {NoHeader, <<"Bearer client">>}
ClientQueries == [QueryParams -> {<<>>, <<"client">>}]

\* the upstream answers 200 or 429
AuthOutcomes == {[status |-> 200, err |-> ""], [status |-> StatusTooManyRequests, err |-> ""]}

\* RoundTrip is entered with a request carrying whatever the client sent.
RoundTripBeginWith ==
    /\ req.pc = "idle"
    /\ \E host \in Hosts, path \in Paths, header \in ClientHeaders, query \in ClientQueries :
          req' = Buffered([IdleRequest EXCEPT !.host = host, !.path = path,
                                     !.Header = header, !.Query = query])
    /\ lastOp' = [op |-> "RoundTrip", n |-> 0, err |-> ""]
    /\ UNCHANGED <<mu, tasks, handler, rt, originalKeys, removalDuration, scopes, now, markedAt, rw>>

NextAuth ==
    \/ RoundTripBeginWith
    \/ RoundTripAcquire
    \/ RoundTripAttemptOf(AuthOutcomes)
    \/ reactivationLoop

InitAuth == ConstructedWith(KeyLists(MaxPoolKeys), Transports, {DefaultHandler})

SpecAuth == InitAuth /\ [][NextAuth]_vars

\* ------------------------------------------------- the front handler
CORSHeaders ==
    {"Access-Control-Allow-Origin", "Access-Control-Allow-Methods", "Access-Control-Allow-Headers"}

StatusOK == 200
StatusInternalServerError == 500

\* geminiPathRegex.MatchString(path): ^/v1beta/models/gemini-.*
GeminiModels == {"gemini-pro"}

geminiPathRegexMatches(path) ==
    LET e == PathElements(path)
    IN Len(e) >= 3 /\ e[1] = "v1beta" /\ e[2] = "models" /\ e[3] \in GeminiModels

\* the body of an inbound request: the reader the server made for it, and
\* the text it yields
InboundBody(content, len, closer) ==
    [kind |-> "reader", len |-> len, closer |-> closer, content |-> content]

\* io.NopCloser(bytes.NewReader(modifiedBody)); httputil.ReverseProxy sends no
\* body when ContentLength is 0
NewBody(content, len) ==
    IF len = 0 THEN NilBody
    ELSE [kind |-> "reader", len |-> len, closer |-> "NopCloser", content |-> content]

\* what the handler is configured with
Handlers == [addGoogleSearch : BOOLEAN, searchTrigger : {"search"}]

\* what the clients of the front handler send: short bodies
FrontMethods == {"GET", "POST", "OPTIONS"}

FrontContents ==
    {ClientBody(j) : j \in {[kind |-> "invalid"], [kind |-> "null"],
                            JSONObject("please Search the web", ToolsList(<<"functionDeclarations">>))}}

FrontLengths == {1, 2}

FrontBodies ==
    {NoBody, InboundBody(ClientBody([kind |-> "invalid"]), 1, "broken")}
        \cup {InboundBody(c, 1, "body") : c \in FrontContents}

FrontOutcomes ==
    {[status |-> StatusOK, err |-> ""], [status |-> StatusForbidden, err |-> ""]}

\* the handler's POST branch: the outcome of handlePostBody for the request
PostBody(body) ==
    handlePostBody(Reader(IF body.kind = "reader" THEN body.content ELSE ClientBody([kind |-> "invalid"]),
                          body.kind = "reader" /\ body.closer = "broken"),
                   handler.addGoogleSearch, handler.searchTrigger)

\* the front handler without the return after its http.Error
MainHandlerGoesOn ==
    /\ req.pc \in {"idle", "served", "aborted"}
    /\ \E Method \in FrontMethods, host \in Hosts, path \in Paths, Body \in FrontBodies,
          len \in FrontLengths :
          LET w == [NothingWritten EXCEPT !.Header = CORSHeaders]
              r == [IdleRequest EXCEPT !.host = host, !.path = path, !.Method = Method, !.Body = Body]
              p == PostBody(Body)
          IN IF Method = "OPTIONS"
             THEN /\ len = 1
                  /\ rw' = [w EXCEPT !.status = StatusOK, !.wrote = 1]
                  /\ req' = [r EXCEPT !.pc = "served"]
             ELSE IF Method = "POST" /\ geminiPathRegexMatches(path)
             THEN IF p.err # ""
                  THEN /\ len = 1
                       /\ rw' = httpError(w, "Error processing request body", StatusInternalServerError)
                       /\ req' = Buffered(r)
                  ELSE IF p.panic # ""
                  THEN /\ len = 1
                       /\ rw' = w
                       /\ req' = [r EXCEPT !.pc = "aborted"]
                  ELSE /\ IF p.body.marshalled THEN TRUE ELSE len = (IF Body.kind = "reader" THEN Body.len ELSE 0)
                       /\ rw' = w
                       /\ req' = Buffered([r EXCEPT !.Body = NewBody(p.body, len)])
             ELSE /\ len = 1
                  /\ rw' = w
                  /\ req' = Buffered(r)
    /\ lastOp' = [op |-> "MainHandler", n |-> 0, err |-> ""]
    /\ UNCHANGED <<mu, tasks, handler, rt, originalKeys, removalDuration, scopes, now, markedAt>>

\* the front handler handing OPTIONS on to the proxy like any other method
MainHandlerForwardsOptions ==
    /\ req.pc \in {"idle", "served", "aborted"}
    /\ \E Method \in FrontMethods, host \in Hosts, path \in Paths, Body \in FrontBodies,
          len \in FrontLengths :
          LET w == [NothingWritten EXCEPT !.Header = CORSHeaders]
              r == [IdleRequest EXCEPT !.host = host, !.path = path, !.Method = Method, !.Body = Body]
              p == PostBody(Body)
          IN IF Method = "POST" /\ geminiPathRegexMatches(path)
             THEN IF p.err # ""
                  THEN /\ len = 1
                       /\ rw' = httpError(w, "Error processing request body", StatusInternalServerError)
                       /\ req' = [r EXCEPT !.pc = "served"]
                  ELSE IF p.panic # ""
                  THEN /\ len = 1
                       /\ rw' = w
                       /\ req' = [r EXCEPT !.pc = "aborted"]
                  ELSE /\ IF p.body.marshalled THEN TRUE ELSE len = (IF Body.kind = "reader" THEN Body.len ELSE 0)
                       /\ rw' = w
                       /\ req' = Buffered([r EXCEPT !.Body = NewBody(p.body, len)])
             ELSE /\ len = 1
                  /\ rw' = w
                  /\ req' = Buffered(r)
    /\ lastOp' = [op |-> "MainHandler", n |-> 0, err |-> ""]
    /\ UNCHANGED <<mu, tasks, handler, rt, originalKeys, removalDuration, scopes, now, markedAt>>

\* The handler createMainHandler returns takes the next inbound request: it
\* sets the CORS headers, answers OPTIONS itself, rewrites the body of a POST
\* for a Gemini model, and hands the request to the proxy, which enters
\* RoundTrip.  A panic is recovered by the server, which drops the connection.
MainHandler ==
    /\ req.pc \in {"idle", "served", "aborted"}
    /\ \E Method \in FrontMethods, host \in Hosts, path \in Paths, Body \in FrontBodies,
          len \in FrontLengths :
          LET w == [NothingWritten EXCEPT !.Header = CORSHeaders]
              r == [IdleRequest EXCEPT !.host = host, !.path = path, !.Method = Method, !.Body = Body]
              p == PostBody(Body)
          IN IF Method = "OPTIONS"
             THEN /\ len = 1
                  /\ rw' = [w EXCEPT !.status = StatusOK, !.wrote = 1]
                  /\ req' = [r EXCEPT !.pc = "served"]
             ELSE IF Method = "POST" /\ geminiPathRegexMatches(path)
             THEN IF p.err # ""
                  THEN /\ len = 1
                       /\ rw' = httpError(w, "Error processing request body", StatusInternalServerError)
                       /\ req' = [r EXCEPT !.pc = "served"]
                  ELSE IF p.panic # ""
                  THEN /\ len = 1
                       /\ rw' = w
                       /\ req' = [r EXCEPT !.pc = "aborted"]
                  ELSE /\ IF p.body.marshalled THEN TRUE ELSE len = (IF Body.kind = "reader" THEN Body.len ELSE 0)
                       /\ rw' = w
                       /\ req' = Buffered([r EXCEPT !.Body = NewBody(p.body, len)])
             ELSE /\ len = 1
                  /\ rw' = w
                  /\ req' = Buffered(r)
    /\ lastOp' = [op |-> "MainHandler", n |-> 0, err |-> ""]
    /\ UNCHANGED <<mu, tasks, handler, rt, originalKeys, removalDuration, scopes, now, markedAt>>

\* The requests follow one another within one reading of the clock.
NextFront ==
    \/ MainHandler
    \/ RoundTripAcquire /\ now' = now
    \/ RoundTripAttemptOf(FrontOutcomes) /\ now' = now
    \/ ProxyModifyResponse /\ now' = now
    \/ ProxyErrorHandler

InitFront == ConstructedWith(KeyLists(MaxPoolKeys), {DefaultTransport}, Handlers)

SpecFront == InitFront /\ [][NextFront]_vars

\* =================================================================== claims
\* a scope's state as callers see it: a scope not yet mentioned is as if fresh
View(sc, s) == IF s \in DOMAIN sc THEN sc[s] ELSE NewScopeState

ValidIndices == {i \in Indices : KeyAt(i) # ""}

DueIn(state, t) == {i \in DOMAIN state.failingKeys : t > state.failingKeys[i]}

PoolOps == {"getNextKey", "markKeyFailed", "reactivateKeys"}

\* ------------------------------------------------------------------- C1
PartitionOK(state) ==
    /\ DOMAIN state.availableKeys \cap DOMAIN state.failingKeys = {}
    /\ DOMAIN state.availableKeys \cup DOMAIN state.failingKeys = ValidIndices

\* C1: in every scope, after every getNextKey, markKeyFailed and reactivateKeys,
\* every index of a non-empty credential is in exactly one of availableKeys and
\* failingKeys, the index of an empty credential (and any index outside the
\* list) is in neither, and no index is in both.
C1_Partition == \A s \in DOMAIN scopes : PartitionOK(scopes[s])

C1_Witness ==
    /\ lastOp.op \in PoolOps
    /\ \E s \in DOMAIN scopes : /\ DOMAIN scopes[s].availableKeys # {}
                                /\ DOMAIN scopes[s].failingKeys # {}

\* ------------------------------------------------------------------- C2
\* C2: when getNextKey has handed the transport a key for an attempt, the index
\* is inside the original list, the original entry there is not empty, the index
\* is in the availableKeys of the request's scope, and the key is the original
\* entry at that index.
C2_AcquireReturnsAvailable ==
    req.pc = "send" =>
        /\ req.keyIndex \in Indices
        /\ KeyAt(req.keyIndex) # ""
        /\ req.keyIndex \in DOMAIN scopes[ScopeOfRequest].availableKeys
        /\ req.apiKey = KeyAt(req.keyIndex)

C2_Witness ==
    /\ req.pc = "send"
    /\ req.attempt > 0
    /\ lastOp.op = "getNextKey"
    /\ lastOp.n > 0
    /\ \E i \in Indices : KeyAt(i) = ""

\* ------------------------------------------------------------------- C3
Untouched(B) ==
    /\ B \in DOMAIN scopes' <=> B \in DOMAIN scopes
    /\ B \in DOMAIN scopes => scopes'[B] = scopes[B]

\* a key failing under A and available under B is what getNextKey(B) returns
\* when the probe starts at it
UsableElsewhere ==
    \A A \in DOMAIN scopes, B \in DOMAIN scopes :
        A # B =>
            \A i \in DOMAIN scopes[A].failingKeys \cap DOMAIN scopes[B].availableKeys :
                LET g == getNextKey(scopes, B, now, i)
                IN g.err = "" /\ g.index = i /\ g.key = KeyAt(i)

\* C3: a markKeyFailed(A, i) step and a getNextKey(A) step, its immediate
\* reactivation check included, leave every other scope B as it was (neither
\* created nor changed); and a key sidelined under A while available under B is
\* still returned by getNextKey(B).
C3_ScopeIsolation ==
    [][/\ \A A \in Scopes :
             (CallGetNextKey(A) \/ \E i \in MarkArgs : CallMarkKeyFailed(A, i))
                 => \A B \in Scopes \ {A} : Untouched(B)
       /\ UsableElsewhere']_vars

C3_Witness ==
    /\ lastOp.op = "markKeyFailed"
    /\ lastOp.n = 1
    /\ \E A \in DOMAIN scopes, B \in DOMAIN scopes :
          /\ A # B
          /\ DOMAIN scopes[A].failingKeys \cap DOMAIN scopes[B].availableKeys # {}

\* ------------------------------------------------------------------- C4
\* C4: while less than removalDuration has passed since markKeyFailed(s, i)
\* sidelined i (markedAt[s][i] is the clock reading of that call), no getNextKey(s),
\* at the current clock reading or a later one inside that window and with any
\* random start, returns i.
C4_NoReturnWhileSidelined ==
    \A s \in Scopes, t \in now..MaxTime, startIndex \in Indices :
        LET g == getNextKey(scopes, s, t, startIndex)
        IN g.err = "" =>
              \A i \in DOMAIN markedAt[s] :
                  t < markedAt[s][i] + removalDuration => g.index # i

C4_Witness ==
    /\ lastOp.op = "getNextKey"
    /\ lastOp.err = ""
    /\ \E s \in DOMAIN scopes :
          /\ DOMAIN markedAt[s] # {}
          /\ DOMAIN scopes[s].availableKeys # {}

\* ------------------------------------------------------------------- C5
MovedBack(s, t) ==
    \A i \in DueIn(scopes[s], t) :
        /\ i \in DOMAIN scopes'[s].availableKeys
        /\ scopes'[s].availableKeys[i] = KeyAt(i)
        /\ i \notin DOMAIN scopes'[s].failingKeys

EveryEntryDue(t) ==
    \A s \in DOMAIN scopes : DueIn(scopes[s], t) = DOMAIN scopes[s].failingKeys

AllUsable(sc, t) ==
    \A s \in DOMAIN sc :
        /\ DOMAIN sc[s].failingKeys = {}
        /\ sc[s].availableKeys = NewScopeState.availableKeys
        /\ \A startIndex \in Indices : getNextKey(sc, s, t, startIndex).err = ""

\* C5: a reactivateKeys step at clock reading now' moves every failing entry of
\* every scope whose reactivation time is before now' back to availableKeys, with
\* the original key; a getNextKey(s) step that finds availableKeys of s empty does
\* the same for s; and after a reactivateKeys step later than every reactivation
\* time, every scope has failingKeys empty and availableKeys equal to all the
\* non-empty credentials, and getNextKey succeeds on it.
C5_Reactivation ==
    [][/\ reactivationLoop => \A s \in DOMAIN scopes : MovedBack(s, now')
       /\ \A s \in DOMAIN scopes :
             (CallGetNextKey(s) /\ DOMAIN scopes[s].availableKeys = {}) => MovedBack(s, now')
       /\ (reactivationLoop /\ EveryEntryDue(now')) => AllUsable(scopes', now')]_vars

C5_Witness ==
    /\ lastOp.op = "reactivateKeys"
    /\ lastOp.n > 0
    /\ DOMAIN scopes = Scopes
    /\ \A s \in DOMAIN scopes : DOMAIN scopes[s].failingKeys = {}

\* ------------------------------------------------------------------- C6
\* C6: markKeyFailed(s, i) followed by markKeyFailed(s, i), at the same clock
\* reading or a later one, leaves the pool as the first call left it; the
\* reactivation time recorded by the first call is kept.
C6_MarkIdempotent ==
    \A s \in Scopes, i \in MarkArgs, t1 \in now..MaxTime :
        \A t2 \in t1..MaxTime :
            markKeyFailed(markKeyFailed(scopes, s, i, t1), s, i, t2)
                = markKeyFailed(scopes, s, i, t1)

C6_Witness ==
    /\ lastOp.op = "markKeyFailed"
    /\ lastOp.n = 0
    /\ \E s \in DOMAIN scopes : \E i \in DOMAIN scopes[s].failingKeys :
          /\ scopes[s].failingKeys[i] < now + removalDuration
          /\ DOMAIN scopes[s].availableKeys = {}

\* ------------------------------------------------------------------- C7
\* C7: a markKeyFailed(s, i) step with i not in the availableKeys of s (already
\* failing, negative, past the end of the list, or the slot of an empty
\* credential) leaves availableKeys and failingKeys of s as they were; the call
\* is defined for every such i and has no error to return.
C7_MarkUnavailableIsNoOp ==
    [][\A s \in Scopes, i \in MarkArgs :
          (CallMarkKeyFailed(s, i) /\ i \notin DOMAIN View(scopes, s).availableKeys)
              => /\ View(scopes', s).availableKeys = View(scopes, s).availableKeys
                 /\ View(scopes', s).failingKeys = View(scopes, s).failingKeys
                 /\ lastOp'.err = ""]_vars

C7_Witness ==
    /\ lastOp.op = "markKeyFailed"
    /\ lastOp.n = 0
    /\ DOMAIN scopes # {}
    /\ \A s \in DOMAIN scopes : DOMAIN scopes[s].failingKeys = {}

\* ------------------------------------------------------------------- C8
\* C8: when every non-empty credential is in failingKeys of a scope and none of
\* them is due at the clock reading of the call, getNextKey on that scope returns
\* no key, index -1 and the all-failing error, and leaves failingKeys as it was.
C8_AllFailingError ==
    \A s \in DOMAIN scopes, t \in now..MaxTime, startIndex \in Indices :
        (DOMAIN scopes[s].failingKeys = ValidIndices /\ DueIn(scopes[s], t) = {})
            => LET g == getNextKey(scopes, s, t, startIndex)
               IN /\ g.err = ErrAllFailing
                  /\ g.key = ""
                  /\ g.index = -1
                  /\ g.scopes[s].failingKeys = scopes[s].failingKeys

C8_Witness ==
    /\ lastOp.op = "getNextKey"
    /\ lastOp.err = ErrAllFailing
    /\ lastOp.n = 0
    /\ \E s \in DOMAIN scopes : DOMAIN scopes[s].failingKeys = ValidIndices

\* ------------------------------------------------------------------- C9
\* every underlying round trip the request made so far answered 429
All429(q) == q.calls >= 1 /\ Len(q.marks) = q.calls

Returns == req.pc # "done" /\ req'.pc = "done"

UpstreamExhausted(status) ==
    [resp |-> 0, err |-> "proxyErrorWithStatus", StatusCode |-> status, cause |-> ""]

CredentialUnavailable(keyErr) ==
    [resp |-> 0, err |-> "proxyErrorWithStatus", StatusCode |-> 503, cause |-> keyErr]

\* C9 as stated: a request whose every attempt was answered 429 has made three
\* attempts and three markKeyFailed calls and returns the error carrying 429.
C9_Original ==
    (req.pc = "done" /\ All429(req)) =>
        /\ req.calls = maxRetries
        /\ Len(req.marks) = maxRetries
        /\ req.ret = UpstreamExhausted(429)

\* C9 amended: with every attempt answered 429, each attempt calls markKeyFailed
\* once, for the key of that attempt, which is then in failingKeys of the
\* request's scope and not in availableKeys; if getNextKey succeeds at all three
\* attempts the request makes three round trips, three markKeyFailed calls and
\* returns the error carrying 429; if getNextKey fails before (every key of the
\* scope failing, none due) the request stops there, after fewer than three
\* round trips, with the error carrying 503.
C9_ThreeAttemptsOrUnavailable ==
    [][/\ (RoundTripAttempt /\ Len(req'.marks) > Len(req.marks)) =>
             /\ req'.marks = Append(req.marks, req.keyIndex)
             /\ req.keyIndex \in DOMAIN scopes'[ScopeOfRequest].failingKeys
             /\ req.keyIndex \notin DOMAIN scopes'[ScopeOfRequest].availableKeys
       /\ (Returns /\ All429(req')) =>
             IF req.pc = "send"
             THEN /\ req'.calls = maxRetries
                  /\ Len(req'.marks) = maxRetries
                  /\ req'.ret = UpstreamExhausted(429)
             ELSE /\ req'.calls < maxRetries
                  /\ req'.ret = CredentialUnavailable(ErrAllFailing)]_vars

C9_Witness ==
    /\ req.pc = "done"
    /\ req.calls = maxRetries
    /\ Len(req.marks) = maxRetries
    /\ Cardinality({req.marks[k] : k \in 1..Len(req.marks)}) = maxRetries
    /\ req.ret = UpstreamExhausted(429)

\* ------------------------------------------------------------------ C10
SingleKey == originalKeys = <<"k1">>

\* C10 as stated: with the single credential and every attempt answered 429, the
\* request ends with the error carrying 429.
C10_Original ==
    (SingleKey /\ req.pc = "done" /\ All429(req)) => req.ret = UpstreamExhausted(429)

\* C10 amended: with the single credential "k1" and every attempt answered 429,
\* the first attempt marks the credential, and a later attempt is made only if
\* more than removalDuration has passed since the previous one marked it;
\* otherwise getNextKey fails and the request ends with the error carrying 503
\* after fewer than three round trips.  It ends with the error carrying 429 only
\* after three round trips.  Either way the credential is in failingKeys of the
\* request's scope, and availableKeys is empty, when the request returns.
C10_SingleKey429 ==
    [][(SingleKey /\ Returns /\ All429(req')) =>
          /\ 0 \in DOMAIN scopes'[ScopeOfRequest].failingKeys
          /\ DOMAIN scopes'[ScopeOfRequest].availableKeys = {}
          /\ (req'.calls - 1) * (removalDuration + 1) <= now'
          /\ IF req'.calls = maxRetries
             THEN req'.ret = UpstreamExhausted(429)
             ELSE /\ req.pc = "acquire"
                  /\ req'.ret = CredentialUnavailable(ErrAllFailing)]_vars

C10_Witness ==
    /\ SingleKey
    /\ req.pc = "done"
    /\ req.calls = 1
    /\ req.marks = <<0>>
    /\ req.ret = CredentialUnavailable(ErrAllFailing)
    /\ 0 \in DOMAIN scopes[ScopeOfRequest].failingKeys

\* ------------------------------------------------------------------ C11
\* C11: when getNextKey fails at an attempt of the retry loop, the first or a
\* later one, RoundTrip returns at once the error carrying 503 that wraps the key
\* error, having made one upstream round trip for each earlier attempt and none
\* for this one; and the client is answered 503 with that error's message.
C11_AcquireFailureIs503 ==
    /\ (lastOp.op = "getNextKey" /\ lastOp.err # "") =>
           /\ req.pc = "done"
           /\ req.ret = CredentialUnavailable(lastOp.err)
           /\ req.calls = req.attempt
    /\ (req.pc = "served" /\ req.ret.cause # "") =>
           /\ req.calls = req.attempt
           /\ rw = httpError(NothingWritten, Error(req), 503)

C11_Witness ==
    /\ req.pc = "served"
    /\ req.ret = CredentialUnavailable(ErrAllFailing)
    /\ req.attempt = 0
    /\ rw.status = 503

\* ------------------------------------------------------------------ C12
\* RoundTrip has returned exactly one of a response and an error
ReturnedOne(q) ==
    \/ q.ret.resp # 0 /\ q.ret.err = ""
    \/ q.ret.resp = 0 /\ q.ret.err # ""

\* C12: a request makes at most maxRetries underlying round trips; the k-th
\* round trip is made by attempt k, from the position reached by a getNextKey
\* call of that attempt that succeeded, and the next attempt begins only after it
\* has returned; a request that has entered the retry loop returns, and what it
\* returns is either a response or an error, never both and never neither.
C12_BoundedSequentialAttempts ==
    /\ [](/\ req.calls <= maxRetries
          /\ req.attempt < maxRetries
          /\ req.pc \in {"done", "served"} => ReturnedOne(req))
    /\ [][/\ req'.calls # req.calls =>
                /\ req.pc = "send"
                /\ req.calls = req.attempt
                /\ req'.calls = req.calls + 1
                /\ req'.pc \in {"acquire", "done"}
          /\ (req'.pc = "send" /\ req.pc # "send") =>
                /\ req.pc = "acquire"
                /\ lastOp' = Acquired(scopes, ScopeOfRequest, now', req'.keyIndex)
                /\ lastOp'.err = ""
                /\ req'.calls = req'.attempt
          /\ req'.attempt # req.attempt =>
                /\ req'.attempt = req.attempt + 1
                /\ req'.calls = req.calls + 1
                /\ req'.pc = "acquire"]_vars
    /\ (req.pc = "acquire" ~> req.pc = "done")

C12_Witness ==
    /\ req.pc = "done"
    /\ req.calls = maxRetries
    /\ req.attempt = maxRetries - 1
    /\ req.ret.resp = 200
    /\ req.ret.err = ""

\* ------------------------------------------------------------------ C13
\* the outcome of the latest underlying round trip of the request
LastOutcome(q) == [status |-> q.resp, err |-> q.lastErr]

\* a net.Error that timed out, an EOF or unexpected EOF, a 429, or a 5xx other
\* than 501 and 505
Retryable(out) ==
    \/ out.err \in {"timeout", "eof"}
    \/ out.err = "" /\ out.status = 429
    \/ out.err = "" /\ out.status >= 500 /\ out.status \notin {501, 505}

\* the claim's list: a timeout, a transient network error or an unexpected EOF,
\* a 429, or a 5xx other than 501 and 505
RetryableAsStated(out) == Retryable(out) \/ out.err = "temporary"

\* the latest round trip of q was followed by RoundTrip's return, not by a failed getNextKey
ReturnedAfterCall(q) == q.pc \in {"done", "served"} /\ q.calls = q.attempt + 1

Classified(q, retryable) ==
    q.calls >= 1 =>
        /\ (q.pc \in {"acquire", "send"} \/ (q.pc \in {"done", "served"} /\ q.calls = q.attempt))
              => /\ retryable
                 /\ q.calls < maxRetries
        /\ ReturnedAfterCall(q) =>
              IF retryable
              THEN q.calls = maxRetries
              ELSE q.ret = [resp |-> q.resp, err |-> q.lastErr, StatusCode |-> 0, cause |-> ""]

C14_SidelinesOnlyOn429 ==
    [][req'.calls = req.calls + 1 =>
          LET out == LastOutcome(req')
          IN /\ (out.err # "" \/ out.status >= 500 \/ out.status # 429) =>
                   /\ scopes' = scopes
                   /\ req'.marks = req.marks
                   /\ lastOp'.op # "markKeyFailed"
             /\ req'.marks # req.marks => (out.err = "" /\ out.status = 429)]_vars

C14_Witness ==
    /\ req.pc = "done"
    /\ req.calls = maxRetries
    /\ req.resp = 500
    /\ req.marks = <<>>
    /\ ScopeOfRequest \in DOMAIN scopes
    /\ DOMAIN scopes[ScopeOfRequest].failingKeys = {}
    /\ DOMAIN scopes[ScopeOfRequest].availableKeys = ValidIndices

\* ------------------------------------------------------------------ C15
\* the request gave up after the round trip of its last attempt
Exhausted(q) ==
    /\ ReturnedAfterCall(q)
    /\ q.calls = maxRetries
    /\ Retryable(LastOutcome(q))

\* C15: when the retries are exhausted and the last attempt got a response,
\* RoundTrip returns no response and the error carrying the status of that last
\* response; when the last attempt ended in a transport error, RoundTrip returns
\* no response and that error itself.
C15_ExhaustedReturnsLast ==
    Exhausted(req) =>
        IF req.lastErr = ""
        THEN req.ret = UpstreamExhausted(req.resp)
        ELSE req.ret = [resp |-> 0, err |-> req.lastErr, StatusCode |-> 0, cause |-> ""]

C15_Witness ==
    /\ Exhausted(req)
    /\ Len(req.marks) = 2
    /\ req.ret = UpstreamExhausted(500)

\* ------------------------------------------------------------------ C16
ThreeKeys == originalKeys = <<"k1", "k2", "k3">>

\* the request was answered 429, 429 and then 200, and the client was served
TwoRetriesThenOK(q) ==
    /\ q.pc = "served"
    /\ q.calls = maxRetries
    /\ Len(q.marks) = 2
    /\ q.resp = 200

\* C16: with the keys k1, k2, k3 a request answered 429 on its first attempts goes
\* on to the next attempt (getNextKey does not fail); answered 429, 429 and then
\* 200 it has made three round trips and the client is sent 200; while the clock
\* has not passed removalDuration (nothing can have been reactivated) the two
\* keys sidelined are distinct and they are the failingKeys of its scope.  In
\* general the key an attempt is about to use is not in failingKeys of the scope,
\* and is not one that was sidelined less than removalDuration ago.
C16_RetriesUseOtherKeys ==
    /\ (ThreeKeys /\ Len(req.marks) = req.calls /\ req.calls < maxRetries)
          => req.pc \notin {"done", "served"}
    /\ (ThreeKeys /\ TwoRetriesThenOK(req)) =>
          /\ rw = CopyResponse(200)
          /\ req.ret.resp = 200 /\ req.ret.err = ""
          /\ now <= removalDuration =>
                /\ req.marks[1] # req.marks[2]
                /\ DOMAIN scopes[ScopeOfRequest].failingKeys = {req.marks[1], req.marks[2]}
    /\ req.pc = "send" =>
          /\ req.keyIndex \notin DOMAIN scopes[ScopeOfRequest].failingKeys
          /\ req.keyIndex \notin DOMAIN markedAt[ScopeOfRequest]

C16_Witness ==
    /\ ThreeKeys
    /\ TwoRetriesThenOK(req)
    /\ now <= removalDuration
    /\ Cardinality(DOMAIN scopes[ScopeOfRequest].failingKeys) = 2
    /\ rw.status = 200

\* ------------------------------------------------------------------
\* C17: when the post-processor is handed a response whose status is at least
\* 400, below 500 and not 429, and whose request context carries the index i
\* of a credential, then after the call i is in the failing keys of the
\* response's scope and not in its available keys, and every other scope is
\* as it was: neither created nor changed.
IsProcessing == lastOp'.op = "ModifyResponse"

OtherScopesUntouched(scope) ==
    \A s \in Scopes \ {scope} :
        /\ s \in DOMAIN scopes' <=> s \in DOMAIN scopes
        /\ s \in DOMAIN scopes => scopes'[s] = scopes[s]

NotAClientError(status) ==
    \/ status >= 200 /\ status < 400
    \/ status >= 500 /\ status < 600
    \/ status = 429

C18_NoMarkOnOtherStatuses ==
    [][(IsProcessing /\ NotAClientError(lastOp'.status)) => scopes' = scopes]_vars

\* a 429 has been processed for a key that is still available in the
\* response's scope, where another key is failing
C18_Witness ==
    /\ lastOp.op = "ModifyResponse"
    /\ lastOp.status = 429
    /\ lastOp.keyIndexVal.ok
    /\ lastOp.scope \in DOMAIN scopes
    /\ lastOp.keyIndexVal.index \in DOMAIN scopes[lastOp.scope].availableKeys
    /\ DOMAIN scopes[lastOp.scope].failingKeys # {}

\* ------------------------------------------------------------------
\* C19: when the request context of the response carries no credential
\* index, the post-processor marks nothing whatever the status is: no scope is
\* created and no scope's state changes.  And for every response, with or
\* without an index, the error it returns is nil.
C19_NoIndexNoMark ==
    /\ [](lastOp.op = "ModifyResponse" => lastOp.err = "")
    /\ [][(IsProcessing /\ ~lastOp'.keyIndexVal.ok) => scopes' = scopes]_vars

\* a 403 without a key index has been processed, and its scope does not exist
\* although the other one does
C19_Witness ==
    /\ lastOp.op = "ModifyResponse"
    /\ ~lastOp.keyIndexVal.ok
    /\ lastOp.status = 403
    /\ lastOp.err = ""
    /\ lastOp.scope \notin DOMAIN scopes
    /\ DOMAIN scopes # {}

\* ------------------------------------------------------------------
\* C20: for every terminal error the error handler writes one status to the
\* client, once, and one line of body: an error carrying a status (retries
\* exhausted, or no credential) gives that status and the error's message, a
\* cancelled context gives 408 and "Client connection closed", and every other
\* error gives 502 and "Proxy Error: Upstream server failed after retries".
C20_ErrorHandlerRendering ==
    /\ req.pc \in {"idle", "acquire", "send", "done"} => rw = NothingWritten
    /\ (req.pc = "served" /\ req.ret.err # "") =>
          /\ rw.wrote = 1
          /\ Len(rw.lines) = 1
          /\ req.ret.err = "proxyErrorWithStatus" =>
                /\ rw.status = req.ret.StatusCode
                /\ rw.lines[1] = Error(req)
          /\ req.ret.err = "canceled" =>
                /\ rw.status = 408
                /\ rw.lines[1] = "Client connection closed"
          /\ req.ret.err \notin {"proxyErrorWithStatus", "canceled"} =>
                /\ rw.status = 502
                /\ rw.lines[1] = "Proxy Error: Upstream server failed after retries"

\* the second attempt's context was cancelled, and the client got a 408
C20_Witness ==
    /\ req.pc = "served"
    /\ req.ret.err = "canceled"
    /\ req.calls = 2
    /\ rw.status = 408

\* ------------------------------------------------------------------
\* C21: with an upstream that answers every request 403 and a pool of at
\* least two credentials, once two requests for the same host|path have been
\* served, and while no sidelined key has come due (the clock has not passed
\* removalDuration), that scope's failing keys are two distinct indices and
\* its available keys are two fewer than the credentials; every other scope
\* has lost exactly as many keys as requests were served for it, none if none.
ServedFor(s) ==
    req.started[s] - (IF ScopeOfRequest = s /\ req.pc \notin {"idle", "served"} THEN 1 ELSE 0)

Sidelined(s, n) ==
    /\ Cardinality(DOMAIN View(scopes, s).failingKeys) = n
    /\ Cardinality(DOMAIN View(scopes, s).availableKeys) = validOriginalKeyCount - n

HeaderAuthConfigured ==
    \E i \in 1..Len(rt.headerAuthPaths) : Contains(req.path, rt.headerAuthPaths[i])

C23_OptionsAnsweredInFront ==
    /\ [](req.Method = "OPTIONS" =>
            /\ req.pc = "served"
            /\ rw.status = 200 /\ rw.wrote = 1 /\ rw.lines = <<>>
            /\ CORSHeaders \subseteq rw.Header
            /\ req.calls = 0 /\ req.keyIndex = -1 /\ req.marks = <<>>)
    /\ [][(lastOp'.op = "MainHandler" /\ req'.Method = "OPTIONS") => scopes' = scopes]_vars

\* an OPTIONS request has been answered while a key sidelined by an earlier
\* request is failing
C23_Witness ==
    /\ req.Method = "OPTIONS"
    /\ lastOp.op = "MainHandler"
    /\ rw.status = 200
    /\ \E s \in DOMAIN scopes : DOMAIN scopes[s].failingKeys # {}

\* ------------------------------------------------------------------
\* C24: a request whose first attempt is answered 200 has made one acquire
\* and one upstream call and has marked nothing; its upstream call and its
\* post-processing leave the pool as it was, and so does its acquire when the
\* scope has an available key: every scope's available and failing keys are
\* as before, and the key handed out is still among the available ones, so
\* the next acquire may hand it out again.  (When the scope's available keys
\* are empty the acquire sweeps, and moves the keys that are due.)
SameViews == \A s \in Scopes : View(scopes', s) = View(scopes, s)

AcquireStep == req.pc = "acquire" /\ req'.pc = "send"

FirstAnswerOK(q) == q.ret.err = "" /\ q.ret.resp = 200 /\ q.attempt = 0

C24_HappyPathOriginal ==
    [][(AcquireStep /\ req.attempt = 0) => SameViews]_vars

HappyPathStep ==
    /\ (AcquireStep /\ DOMAIN View(scopes, ScopeOfRequest).availableKeys # {}) =>
          (SameViews /\ req'.keyIndex \in DOMAIN scopes'[ScopeOfRequest].availableKeys)
    /\ (req.pc = "send" /\ req'.pc = "done" /\ FirstAnswerOK(req')) => scopes' = scopes
    /\ (req.pc = "done" /\ req'.pc = "served" /\ FirstAnswerOK(req)) => scopes' = scopes

C24_HappyPath ==
    /\ []((req.pc \in {"done", "served"} /\ FirstAnswerOK(req)) =>
              (req.calls = 1 /\ req.marks = <<>>))
    /\ [][HappyPathStep]_vars

\* a request was served the 200 of its first attempt while another key of its
\* scope is failing, and its own key is still available
C24_Witness ==
    /\ req.pc = "served"
    /\ FirstAnswerOK(req)
    /\ req.calls = 1
    /\ ScopeOfRequest \in DOMAIN scopes
    /\ req.keyIndex \in DOMAIN scopes[ScopeOfRequest].availableKeys
    /\ DOMAIN scopes[ScopeOfRequest].failingKeys # {}

\* ------------------------------------------------------------------ C25
\* what the call of a goroutine does to the pool when it runs alone, from the
\* scopes map it found when it took the mutex
EffectOf(me) ==
    IF me.op = "getNextKey" THEN getNextKey(me.entry, me.scope, me.t, me.startIndex).scopes
    ELSE IF me.op = "markKeyFailed" THEN markKeyFailed(me.entry, me.scope, me.keyIndex, me.t)
    ELSE reactivateKeys(me.entry, me.t)

ReturnOf(me) ==
    LET g == getNextKey(me.entry, me.scope, me.t, me.startIndex)
    IN [key |-> g.key, index |-> g.index, err |-> g.err]

Returning(task) == tasks[task].pc = "unlock"

\* C25: however the calls of getNextKey, markKeyFailed and reactivateKeys by
\* two request goroutines and the reactivation goroutine interleave, on one
\* scope or on two: whenever the mutex is free every scope satisfies the
\* partition; a call that is about to return has changed the pool exactly as
\* it would have running alone from the state it locked; and a getNextKey that
\* returns no error returns an index of the list and the credential at it.
C25_AtomicUnderLock ==
    /\ mu = NoHolder => \A s \in DOMAIN scopes : PartitionOK(scopes[s])
    /\ \A task \in Tasks :
          Returning(task) =>
             /\ scopes = EffectOf(tasks[task])
             /\ tasks[task].op = "getNextKey" =>
                   /\ tasks[task].ret = ReturnOf(tasks[task])
                   /\ tasks[task].ret.err = "" =>
                         /\ tasks[task].ret.index \in Indices
                         /\ tasks[task].ret.key = KeyAt(tasks[task].ret.index)
                         /\ tasks[task].ret.key # ""

\* a markKeyFailed is between its two writes (the index is in both maps of the
\* scope) while the other request goroutine, in a getNextKey, and the
\* reactivation goroutine wait for the mutex
C25_Witness ==
    \E task \in RequestTasks : \E other \in RequestTasks \ {task} :
        /\ InCall(task, "markKeyFailed", "mark-delete")
        /\ ~PartitionOK(scopes[tasks[task].scope])
        /\ InCall(other, "getNextKey", "lock")
        /\ InCall(ReactivationTask, "reactivateKeys", "lock")

\* ------------------------------------------------------------------ C26
JustConstructed == lastOp.op = "newKeyManager" /\ "keys" \in DOMAIN lastOp

\* the inputs the construction must refuse
Refused(keys, duration) ==
    \/ Len(keys) = 0
    \/ duration <= 0
    \/ \A i \in 1..Len(keys) : keys[i] = ""

\* C26: newKeyManager returns an error and no keyManager exactly when the list
\* is empty, the duration is zero or negative, or every entry is the empty
\* string; otherwise it returns no error and a keyManager holding the list,
\* the duration and an empty scopes map.
C26_Construction ==
    JustConstructed =>
        IF Refused(lastOp.keys, lastOp.duration)
        THEN lastOp.err # "" /\ NoPool
        ELSE /\ lastOp.err = ""
             /\ originalKeys = lastOp.keys
             /\ removalDuration = lastOp.duration
             /\ scopes = EmptyMap

\* a list of two empty strings with a positive duration was refused
C26_Witness ==
    /\ JustConstructed
    /\ lastOp.keys = <<"", "">>
    /\ lastOp.duration > 0
    /\ lastOp.err = "no valid (non-empty) API keys found"
    /\ NoPool

\* ------------------------------------------------------------------ C27
\* a scope as it is when first mentioned: every non-empty credential available
\* at its original index, nothing failing
FreshScope(state) ==
    /\ DOMAIN state.availableKeys = {i \in Indices : KeyAt(i) # ""}
    /\ \A i \in DOMAIN state.availableKeys : state.availableKeys[i] = KeyAt(i)
    /\ state.failingKeys = EmptyMap

\* a fresh scope from which markKeyFailed has at once taken keyIndex
FreshScopeLess(state, keyIndex) ==
    /\ DOMAIN state.availableKeys = {i \in Indices : KeyAt(i) # ""} \ {keyIndex}
    /\ \A i \in DOMAIN state.availableKeys : state.availableKeys[i] = KeyAt(i)
    /\ DOMAIN state.failingKeys = {i \in Indices : KeyAt(i) # ""} \cap {keyIndex}

FirstMention(s) == s \notin DOMAIN scopes

ScopeLifeStep ==
    /\ DOMAIN scopes \subseteq DOMAIN scopes'
    /\ DOMAIN scopes' # DOMAIN scopes =>
          /\ lastOp'.op \in {"getNextKey", "markKeyFailed"}
          /\ Cardinality(DOMAIN scopes' \ DOMAIN scopes) = 1
    /\ \A s \in Scopes :
          (CallGetNextKey(s) /\ FirstMention(s)) =>
              /\ s \in DOMAIN scopes'
              /\ FreshScope(scopes'[s])
    /\ \A s \in Scopes, keyIndex \in MarkArgs :
          (CallMarkKeyFailed(s, keyIndex) /\ FirstMention(s)) =>
              /\ s \in DOMAIN scopes'
              /\ FreshScopeLess(scopes'[s], keyIndex)
    /\ reactivationLoop => DOMAIN scopes' = DOMAIN scopes

\* C27: a scope enters the scopes map in the step of the first getNextKey or
\* markKeyFailed that names it (and in no other step), holding exactly the
\* non-empty credentials at their original indices as available and nothing as
\* failing before that operation acts on it; no step removes a scope.
C27_ScopeCreatedOnFirstMention == [][ScopeLifeStep]_vars

\* both scopes exist, the one named last by a markKeyFailed that sidelined a key
C27_Witness ==
    /\ lastOp.op = "markKeyFailed"
    /\ lastOp.n = 1
    /\ DOMAIN scopes = Scopes
    /\ \E s \in Scopes : FreshScope(scopes[s])
    /\ \E s \in Scopes : \E keyIndex \in Indices :
          DOMAIN scopes[s].failingKeys = {keyIndex} /\ FreshScopeLess(scopes[s], keyIndex)

\* ------------------------------------------------------------------ C28
\* the client went away between two attempts: after an attempt that is to be
\* retried, before the loop has come round to its next getNextKey
CanceledBetweenAttempts ==
    req.ctx.err = "canceled" /\ req.ctx.at = "acquire" /\ req.ctx.attempt > 0

NoFurtherAttempt ==
    (CanceledBetweenAttempts /\ req.pc = "acquire") =>
        /\ ~RoundTripAcquire
        /\ req'.calls = req.calls

RenderedAsTimeout ==
    (CanceledBetweenAttempts /\ req.pc = "served") => rw.status = StatusRequestTimeout

\* C28: when the caller's context is canceled between two attempts, RoundTrip
\* calls getNextKey no more and the underlying round trip no more for that
\* request, and the client is answered 408.
C28_CancelBetweenAttempts == [][NoFurtherAttempt]_vars /\ []RenderedAsTimeout

\* ------------------------------------------------------------------ C29
\* RoundTrip has buffered the body of the request
BodyBuffered ==
    /\ req.pc \in {"acquire", "send", "done", "served"}
    /\ req.Body.kind = "reader"
    /\ ~isIdempotentMethod(req.Method)
    /\ req.ret # ReadFailure

\* C29: of a body that RoundTrip buffers, one of exactly bodyReadLimit bytes
\* is buffered whole without the truncation warning; the warning is logged
\* exactly when the body is longer than bodyReadLimit, and then the first
\* bodyReadLimit bytes are what is buffered and sent.
C29_BufferingBoundary ==
    BodyBuffered =>
        /\ req.Body.len = bodyReadLimit => (req.bodyBytes = bodyReadLimit /\ ~req.warned)
        /\ req.warned <=> req.Body.len > bodyReadLimit
        /\ req.Body.len > bodyReadLimit => req.bodyBytes = bodyReadLimit

\* ------------------------------------------------------------------ C30
\* handlePostBody was called on a body whose bytes could be read
Rewrote == lastOp.op = "handlePostBody" /\ ~lastOp.body.readErr

\* C30: handlePostBody returns the bytes it read, as they are and with a nil
\* error, whenever addGoogleSearch is false or the bytes are not a JSON object
\* (they do not parse, or they are an array, a string or null).
C30_RewriteIdentity ==
    (Rewrote /\ (~lastOp.addGoogleSearch \/ lastOp.body.body.json.kind # "object")) =>
        lastOp.result = Returned(lastOp.body.body)

\* ------------------------------------------------------------------ C31
\* handlePostBody rewrote a JSON object in which the trigger word was found
TriggerRewrote ==
    /\ Rewrote
    /\ lastOp.addGoogleSearch
    /\ lastOp.body.body.json.kind = "object"
    /\ lastOp.searchTrigger \in WordsOf(lastOp.body.body.json.text)

ToolsBefore == lastOp.body.body.json.tools

ToolsAfter == lastOp.result.body.json.tools

\* C31 as stated: when the trigger word is found, the tools of the body handed
\* back are the one-element list of google_search, whatever tools were before.
C31_TriggerReplacesToolsOriginal ==
    TriggerRewrote =>
        /\ lastOp.result.err = "" /\ lastOp.result.panic = ""
        /\ ToolsAfter = [shape |-> "list", items |-> <<"google_search">>]

\* C31: when the trigger word is found, tools that were absent, a list or of
\* another type become the one-element list of google_search; a tools object
\* stays an object, loses its functionDeclarations, gains google_search and
\* keeps its other keys. In every case no functionDeclarations remains and
\* google_search is present.
C31_TriggerReplacesTools ==
    TriggerRewrote =>
        /\ lastOp.result.err = "" /\ lastOp.result.panic = ""
        /\ IF ToolsBefore.shape = "map"
           THEN /\ ToolsAfter.shape = "map"
                /\ ToolsAfter.keys =
                      (ToolsBefore.keys \ {"functionDeclarations"}) \cup {"google_search"}
           ELSE ToolsAfter = [shape |-> "list", items |-> <<"google_search">>]
        /\ ToolsAfter.shape = "list" =>
              \A k \in 1..Len(ToolsAfter.items) : ToolsAfter.items[k] # "functionDeclarations"

\* the trigger was found and a tools object with functionDeclarations and
\* code_execution came back as an object with google_search and code_execution
C31_Witness ==
    /\ TriggerRewrote
    /\ ToolsBefore = [shape |-> "map", keys |-> {"functionDeclarations", "code_execution"}]
    /\ ToolsAfter = [shape |-> "map", keys |-> {"google_search", "code_execution"}]
    /\ lastOp.result.body.marshalled

\* ------------------------------------------------------------------ C32
\* the front handler has answered the request 500 for its body
BadBodyAnswered ==
    rw.lines = <<"Error processing request body">> /\ rw.status = StatusInternalServerError

\* the request is a POST for a Gemini model whose body the handler rewrites
RewrittenPost ==
    /\ req.pc # "idle"
    /\ req.Method = "POST"
    /\ geminiPathRegexMatches(req.path)
    /\ req.Body.kind = "reader"

NotForwarded ==
    /\ req.pc = "served"
    /\ req.calls = 0 /\ req.keyIndex = -1 /\ req.marks = <<>>
    /\ rw.wrote = 1

\* C32 as stated: a body that the rewrite fails to parse is answered 500 by
\* the front handler, and the request goes no further.
C32_BadBodyOriginal ==
    (/\ RewrittenPost
     /\ handler.addGoogleSearch
     /\ req.Body.content.json.kind = "invalid") => (BadBodyAnswered /\ NotForwarded)

BadBodyStep ==
    (lastOp'.op = "MainHandler" /\ BadBodyAnswered') => scopes' = scopes

\* C32: the front handler answers 500 for the body exactly when handlePostBody
\* returned an error, which it does when the body cannot be read (a body that
\* does not parse is no error: it goes to the proxy as it is); whenever it has
\* answered 500 for the body the request went no further: no key was acquired,
\* no upstream call was made, and the pool is as it was.
C32_BadBody ==
    /\ [](BadBodyAnswered => (RewrittenPost /\ req.Body.closer = "broken" /\ NotForwarded))
    /\ []((RewrittenPost /\ req.Body.closer = "broken") => BadBodyAnswered)
    /\ [][BadBodyStep]_vars

\* a POST whose body could not be read was answered 500 after earlier
\* requests had gone through the pool
C32_Witness ==
    /\ BadBodyAnswered
    /\ NotForwarded
    /\ req.Method = "POST"
    /\ \E s \in DOMAIN scopes : DOMAIN scopes[s].failingKeys # {}

\* ------------------------------------------------------------------ C33
EmptyIndices == {i \in Indices : KeyAt(i) = ""}

\* C33: in every scope, no index of an empty entry of originalKeys is a key of
\* availableKeys or of failingKeys, whatever getNextKey, markKeyFailed and
\* reactivateKeys were called with.
C33_EmptyNeverListed ==
    \A s \in DOMAIN scopes :
        /\ DOMAIN scopes[s].availableKeys \cap EmptyIndices = {}
        /\ DOMAIN scopes[s].failingKeys \cap EmptyIndices = {}

\* the list has an empty entry and a non-empty one, a scope has its non-empty
\* credential failing, and the last markKeyFailed moved nothing
C33_Witness ==
    /\ EmptyIndices # {}
    /\ lastOp.op = "markKeyFailed"
    /\ lastOp.n = 0
    /\ \E s \in DOMAIN scopes : DOMAIN scopes[s].failingKeys # {}

\* ------------------------------------------------------------------ C34
PostProcessStep == lastOp'.op = "ModifyResponse"

\* the indices a step adds to the failing keys of scope s
NewlyFailing(s) ==
    DOMAIN View(scopes', s).failingKeys \ DOMAIN View(scopes, s).failingKeys

\* the clone sent in the latest attempt carries this credential
SentWith(apiKey) ==
    \/ req.currentReq.Header = <<"Bearer " \o apiKey>>
    \/ req.currentReq.Query[rt.keyParam] = <<apiKey>>

PostProcessedFinalAttempt ==
    PostProcessStep =>
        /\ req.pc = "done" /\ req'.pc = "served"
        /\ req.ret.err = "" /\ req.lastErr = ""
        /\ lastOp'.status = req.resp
        /\ ~shouldRetry([status |-> req.resp, err |-> ""])
        /\ lastOp'.keyIndexVal = [ok |-> TRUE, index |-> req.keyIndex]
        /\ req.keyIndex \in Indices
        /\ SentWith(KeyAt(req.keyIndex))
        /\ \A s \in Scopes :
              NewlyFailing(s) \subseteq (IF s = ScopeOfRequest THEN {req.keyIndex} ELSE {})

SentBody(c) == <<c.Body, c.ContentLength, c.ContentLengthHeader>>

\* a step of the retry loop that builds the clone of a new attempt
NewAttempt == req.pc = "acquire" /\ req'.pc = "send"

AttemptBody ==
    NewAttempt =>
        /\ req'.bodyBytes = req.bodyBytes
        /\ req.bodyBytes > 0 =>
              SentBody(req'.currentReq) =
                  <<ReaderBody(req.bodyBytes, "NopCloser"), req.bodyBytes, <<req.bodyBytes>> >>
        /\ req.bodyBytes = 0 =>
              SentBody(req'.currentReq) = <<NoBody, 0, <<>> >>
        /\ req.attempt > 0 => SentBody(req'.currentReq) = SentBody(req.currentReq)

\* C35: every attempt of a request sends the same body. When bytes were
\* buffered each attempt gets a reader over all of them, with ContentLength
\* and the Content-Length header equal to their number, whatever the earlier
\* round trip read; when none were, each attempt gets http.NoBody, length 0
\* and no Content-Length header.
C35_SameBodyEveryAttempt == [][AttemptBody]_vars

\* a second attempt carrying all the buffered bytes after the first round
\* trip had read them all
C35_Witness ==
    /\ req.pc = "send"
    /\ req.attempt >= 1
    /\ req.bodyBytes > 0
    /\ req.read = req.bodyBytes
    /\ req.currentReq.Body = ReaderBody(req.bodyBytes, "NopCloser")

\* ------------------------------------------------------------------ C39
IdempotentAttempt ==
    isIdempotentMethod(req.Method) /\ req.pc \in {"acquire", "send", "done", "served"} =>
        /\ req.bodyBytes = 0
        /\ ~req.warned
        /\ req.pc = "send" => SentBody(req.currentReq) = <<NoBody, 0, <<>> >>
        /\ req.calls > 0 => SentBody(req.currentReq) = <<NoBody, 0, <<>> >>

\* C39: for a request whose method is GET, HEAD, OPTIONS, TRACE, PUT or
\* DELETE nothing is buffered, and every attempt, the first included, is sent
\* with http.NoBody, length 0 and no Content-Length header, also when the
\* request came with a body.
C39_IdempotentSendsNoBody == IdempotentAttempt

\* a PUT that came with a body and was sent without it
C39_Witness ==
    /\ req.Method = "PUT"
    /\ req.Body.kind = "reader" /\ req.Body.len > 0
    /\ req.pc = "send"
    /\ req.currentReq.Body = NoBody
    /\ req.currentReq.ContentLengthHeader = <<>>

\* ------------------------------------------------------------------ C36
\* a sidelined key of a scope that has other keys available is back among
\* the available ones before twice removalDuration has passed since it was
\* sidelined (failingKeys holds the reading of the sidelining + removalDuration)
BackWithinTwoDurations ==
    \A s \in DOMAIN scopes : \A i \in DOMAIN scopes[s].failingKeys :
        DOMAIN scopes[s].availableKeys # {} =>
            now < scopes[s].failingKeys[i] + removalDuration

\* C36: for every removalDuration newKeyManager accepts, the period of the
\* ticker is strictly less than removalDuration, and a sidelined key whose
\* scope has other keys available is available again within removalDuration
\* plus one period, which is less than twice removalDuration.
C36_SweepCadence ==
    /\ tickerPeriod < removalDuration
    /\ BackWithinTwoDurations

\* ------------------------------------------------------------------ C37
PostProcessedBody == lastOp.op = "ModifyResponse"

\* the read of the upstream body failed before its end
ReadFails == lastOp.upstream.kind = "reader" /\ lastOp.upstream.err

\* The statement as the specification has it: for every status the body that
\* goes on to the client is the upstream body.
C37_BodyIntactOriginal ==
    PostProcessedBody => lastOp.Body = lastOp.upstream

\* C37: the post-processor does not touch the body of a 2xx response. For any
\* other status it reads the body to log it; when the read succeeds the body
\* that goes on to the client yields the same bytes as the upstream body, and
\* when the read fails the body that goes on is empty and reads without error.
\* A nil body or http.NoBody is left as it is.
C37_BodyIntact ==
    PostProcessedBody =>
        /\ (lastOp.status >= 200 /\ lastOp.status < 300) => lastOp.Body = lastOp.upstream
        /\ ~ReadFails => lastOp.Body = lastOp.upstream
        /\ (ReadFails /\ ~(lastOp.status >= 200 /\ lastOp.status < 300)) =>
              lastOp.Body = ResponseReader("", FALSE)

\* a 403 whose body was read, logged and handed on with the same bytes
C37_Witness ==
    /\ PostProcessedBody
    /\ lastOp.status = StatusForbidden
    /\ lastOp.upstream = ResponseReader("Access denied", FALSE)
    /\ lastOp.Body = ResponseReader("Access denied", FALSE)
    /\ lastOp.n = 1

\* ------------------------------------------------------------------ C38
\* every scope whose availableKeys is empty has exactly the non-empty keys in
\* failingKeys, and in every other scope the probe finds an entry from any start
EmptyMeansAllFailing ==
    \A s \in DOMAIN scopes :
        /\ DOMAIN scopes[s].availableKeys = {} =>
              DOMAIN scopes[s].failingKeys = ValidIndices
        /\ DOMAIN scopes[s].availableKeys # {} =>
              \A startIndex \in Indices :
                  Probe(scopes[s], startIndex) \in DOMAIN scopes[s].availableKeys

\* C38: after newKeyManager has succeeded, no sequence of getNextKey,
\* markKeyFailed and reactivateKeys makes getNextKey return "no keys
\* configured or available" or "no available key found after checking all
\* indices": a scope with no available key has exactly the non-empty keys
\* failing, and in a scope with an available key the probe finds one.
C38_NoInternalErrors ==
    /\ lastOp.op = "getNextKey" => lastOp.err \notin {ErrNoneConfigured, ErrNotFound, ErrEmptyList}
    /\ EmptyMeansAllFailing

\* getNextKey failed because every non-empty key of the scope is failing
C38_Witness ==
    /\ lastOp.op = "getNextKey"
    /\ lastOp.err = ErrAllFailing
    /\ \E s \in DOMAIN scopes :
          /\ DOMAIN scopes[s].availableKeys = {}
          /\ DOMAIN scopes[s].failingKeys = ValidIndices
    /\ Cardinality(ValidIndices) < numOriginalKeys

\* ------------------------------------------------------------------ C40
\* the keys the request has had sidelined: the transport's markKeyFailed calls
\* and the post-processor's
SidelinedByRequest ==
    Len(req.marks) + (IF lastOp.op = "ModifyResponse" THEN lastOp.n ELSE 0)

InOwnScope ==
    /\ \A s \in Scopes :
          NewlyFailing(s) # {} => s = ScopeOfRequest /\ NewlyFailing(s) = {req.keyIndex}
    /\ PostProcessStep => lastOp'.scope = ScopeOfRequest
    /\ req.pc # "idle" => ScopeOfRequest' = ScopeOfRequest

=============================================================================
